---- MODULE Spec2Model ----
(***************************************************************************)
(* A model of the DNS protocol unit of libtins (src/src/dns.cpp): the      *)
(* records_data byte vector with its three section offsets, the four add   *)
(* operations with their compression-pointer maintenance, the parsing      *)
(* constructor, the name decoder compose_name and the section readers.     *)
(* Bytes are integers 0..255; positions are 0-based as in the C++ code,    *)
(* so byte i of a vector d is d[i+1].                                      *)
(***************************************************************************)
EXTENDS Integers, Sequences, FiniteSets, TLC

VARIABLES
    dns,             \* dns_: the 12-byte header (id, flags, four counts)
    records_data,    \* records_data_: the bytes after the header
    answers_idx,     \* answers_idx_
    authority_idx,   \* authority_idx_
    additional_idx,  \* additional_idx_
    status,          \* "ok", or "crashed" once undefined behaviour ended the process
    origin,          \* "built" (DNS()) or "parsed" (DNS(buffer, size))
    added,           \* history: the entries passed to each add operation, per section
    nadds,           \* history: number of add operations performed
    pre,             \* history: the unit as it was before the last operation
    last,            \* history: the last operation and its insertion parameters
    cn,              \* the activation record of one compose_name call (SpecCompose)
    en,              \* one encode_domain_name call and the decoding of its result (SpecEncode)
    ip6,             \* one IPv6 unit (SpecIPv6)
    wifi,            \* one IEEE 802.11 frame (SpecDot11)
    route,           \* one resolution of an IPv4 address to an interface (SpecRoute)
    probe            \* one name routine applied to a name that starts with a given byte (SpecProbe)

vars == <<dns, records_data, answers_idx, authority_idx, additional_idx,
          status, origin, added, nadds, pre, last, cn, en, ip6, wifi, route,
          probe>>

\* the units other than the DNS unit
others == <<en, ip6, wifi, route, probe>>

dnsvars == <<dns, records_data, answers_idx, authority_idx, additional_idx,
             status, origin, added, nadds, pre, last>>

(***************************************************************************)
(* Bounds of the model.                                                    *)
(***************************************************************************)
MaxAdds == 2

(***************************************************************************)
(* Program constants.                                                      *)
(***************************************************************************)
A == 1
NS == 2
CNAME == 5
PTR == 12
MX == 15
AAAA == 28
DNAM == 39
HeaderSize == 12
MaxDnameLen == 255

(***************************************************************************)
(* Byte helpers.                                                           *)
(***************************************************************************)
Byte == 0..255

\* Bytes i .. j-1 (0-based, half open) of d.
Slice(d, i, j) == SubSeq(d, i + 1, j)

\* write_be<uint16_t> / write_be<uint32_t>
be16(v) == << (v \div 256) % 256, v % 256 >>
be32(v) == << (v \div 16777216) % 256, (v \div 65536) % 256, (v \div 256) % 256, v % 256 >>

\* read_be<uint16_t> / read_be<uint32_t> at position p of d
rd16(d, p) == d[p + 1] * 256 + d[p + 2]
rd32(d, p) == ((d[p + 1] * 256 + d[p + 2]) * 256 + d[p + 3]) * 256 + d[p + 4]

\* (value & 0xc0) != 0: the test the code uses to recognise an offset label
IsOffsetLabel(b) == (b \div 64) % 4 # 0

\* memcpy of two bytes, be_to_host, & 0x3fff
PointerIndex(b0, b1) == (b0 * 256 + b1) % 16384

\* host_to_be<uint16_t>((index + offset) | 0xc000)
EncodePointer(v) == be16(49152 + (v % 16384))

contains_dname(type) == type = MX \/ type = CNAME \/ type = PTR \/ type = NS

(***************************************************************************)
(* encode_domain_name: dotted string to length-prefixed labels.            *)
(* Characters are their ASCII codes; '.' is 46.                            *)
(***************************************************************************)
Dot == 46

\* dn.find('.', from): the 0-based position of the first dot at or after
\* from, -1 for npos.
RECURSIVE find_dot(_, _)
find_dot(dn, from) ==
    IF from >= Len(dn) THEN -1
    ELSE IF dn[from + 1] = Dot THEN from
    ELSE find_dot(dn, from + 1)

RECURSIVE encode_labels(_, _, _)
encode_labels(dn, last_index, output) ==
    LET index == find_dot(dn, last_index + 1) IN
    IF index # -1
    THEN encode_labels(dn, index + 1,
             output \o << (index - last_index) % 256 >> \o Slice(dn, last_index, index))
    ELSE output \o << (Len(dn) - last_index) % 256 >> \o Slice(dn, last_index, Len(dn))

encode_domain_name(dn) ==
    (IF dn # << >> THEN encode_labels(dn, 0, << >>) ELSE << >>) \o << 0 >>

(***************************************************************************)
(* update_dname: walks one encoded name at ptr and rewrites its            *)
(* compression pointer.  The code makes no length checks; a read at or     *)
(* past the end of the vector is undefined behaviour, reported as oob.     *)
(* g is the byte such a read happens to return when the first byte of a    *)
(* 2-byte pointer is the last byte of the vector.                          *)
(***************************************************************************)
RECURSIVE update_dname(_, _, _, _, _)
update_dname(d, ptr, threshold, offset, g) ==
    IF ptr >= Len(d)
    THEN [data |-> d, ptr |-> ptr, oob |-> TRUE]
    ELSE IF d[ptr + 1] = 0
    THEN [data |-> d, ptr |-> ptr, oob |-> FALSE]
    ELSE IF IsOffsetLabel(d[ptr + 1])
    THEN LET straddle == ptr + 1 >= Len(d)
             b1    == IF straddle THEN g ELSE d[ptr + 2]
             index == PointerIndex(d[ptr + 1], b1)
             enc   == EncodePointer(index + offset)
             d2    == IF index > threshold
                      THEN [i \in 1..Len(d) |->
                               IF i = ptr + 1 THEN enc[1]
                               ELSE IF i = ptr + 2 THEN enc[2]
                               ELSE d[i]]
                      ELSE d
         IN [data |-> d2, ptr |-> ptr + 2, oob |-> straddle]
    ELSE update_dname(d, ptr + d[ptr + 1] + 1, threshold, offset, g)

(***************************************************************************)
(* update_records: the loop over the num_records records of one section.   *)
(* Returns the rewritten vector; the caller adds offset to section_start.  *)
(***************************************************************************)
RECURSIVE update_records_loop(_, _, _, _, _, _)
update_records_loop(d, ptr, n, threshold, offset, g) ==
    IF n = 0 THEN [data |-> d, oob |-> FALSE]
    ELSE
    LET r1 == update_dname(d, ptr, threshold, offset, g) IN
    IF r1.oob THEN [data |-> r1.data, oob |-> TRUE]
    ELSE IF r1.ptr + 9 >= Len(d) THEN [data |-> r1.data, oob |-> TRUE]
    ELSE
    LET p     == r1.ptr
        type  == rd16(r1.data, p)
        size0 == rd16(r1.data, p + 8)
        p2    == p + 10 + (IF type = MX THEN 2 ELSE 0)
        size  == IF type = MX THEN (size0 + 65536 - 2) % 65536 ELSE size0
        r2    == IF contains_dname(type)
                 THEN update_dname(r1.data, p2, threshold, offset, g)
                 ELSE [data |-> r1.data, ptr |-> p2, oob |-> FALSE]
    IN IF r2.oob THEN [data |-> r2.data, oob |-> TRUE]
       ELSE update_records_loop(r2.data, p2 + size, n - 1, threshold, offset, g)

update_records(d, section_start, num_records, threshold, offset, g) ==
    IF section_start < Len(d)
    THEN update_records_loop(d, section_start, num_records, threshold, offset, g)
    ELSE [data |-> d, oob |-> FALSE]

\* the bytes appended instead of inserted at threshold
insert_at_end(d, threshold, bytes) == d \o bytes

\* records_data_.insert(records_data_.begin() + threshold, bytes)
insert_at(d, threshold, bytes) ==
    Slice(d, 0, threshold) \o bytes \o Slice(d, threshold, Len(d))

(***************************************************************************)
(* Address conversions.  IPv4Address(string), IPv6Address(string) and      *)
(* IPv6Address::to_string are outside the modelled sources; they are       *)
(* taken as the textual/binary conversions the specification describes.    *)
(***************************************************************************)
RECURSIVE v4_parse(_, _, _, _)
v4_parse(s, i, cur, out) ==
    IF i > Len(s) THEN out \o << cur % 256 >>
    ELSE IF s[i] = Dot THEN v4_parse(s, i + 1, 0, out \o << cur % 256 >>)
    ELSE v4_parse(s, i + 1, cur * 10 + (s[i] - 48), out)

IPv4FromString(s) == v4_parse(s, 1, 0, << >>)

\* sprintf("%d")
DecString(n) ==
    IF n < 10 THEN << 48 + n >>
    ELSE IF n < 100 THEN << 48 + (n \div 10), 48 + (n % 10) >>
    ELSE << 48 + (n \div 100), 48 + ((n \div 10) % 10), 48 + (n % 10) >>

\* inline_convert_v4 on the four bytes read<uint32_t> took from the stream
inline_convert_v4(b) ==
    DecString(b[1]) \o << Dot >> \o DecString(b[2]) \o << Dot >>
        \o DecString(b[3]) \o << Dot >> \o DecString(b[4])

Zeros(n) == [i \in 1..n |-> 0]

\* "::1" and "::" with their 16 address bytes
V6Loopback == << 58, 58, 49 >>
V6Any == << 58, 58 >>

IPv6FromString(s) == IF s = V6Loopback THEN Zeros(15) \o << 1 >> ELSE Zeros(16)

IPv6ToString(b) == IF b = Zeros(15) \o << 1 >> THEN V6Loopback ELSE V6Any

\* std::string(const char*): the bytes before the first NUL
RECURSIVE CStr(_)
CStr(b) == IF b = << >> \/ b[1] = 0 THEN << >> ELSE << b[1] >> \o CStr(Tail(b))

(***************************************************************************)
(* The bytes add_query and add_record insert.                              *)
(***************************************************************************)
query_bytes(query) ==
    encode_domain_name(query.dname) \o be16(query.type) \o be16(query.qclass)

record_bytes(resource) ==
    LET buffer == encode_domain_name(resource.dname)
        type == resource.type
        encoded_data == IF type # A /\ type # AAAA /\ contains_dname(type)
                        THEN encode_domain_name(resource.data) ELSE << >>
        data_size == IF type = A THEN 4
                     ELSE IF type = AAAA THEN 16
                     ELSE IF contains_dname(type) THEN Len(encoded_data)
                     ELSE Len(resource.data)
        payload == IF type = A THEN IPv4FromString(resource.data)
                   ELSE IF type = AAAA THEN IPv6FromString(resource.data)
                   ELSE IF encoded_data # << >> THEN encoded_data
                   ELSE resource.data
    IN buffer \o be16(type) \o be16(resource.qclass) \o be32(resource.ttl)
         \o be16((data_size + (IF type = MX THEN 2 ELSE 0)) % 65536)
         \o (IF type = MX THEN << 0, 0 >> ELSE << >>)
         \o payload

(***************************************************************************)
(* The parsing constructor DNS(buffer, total_sz).  The input stream's      *)
(* skip / read / can_read raise malformed_packet when fewer bytes remain   *)
(* than requested; a position of -1 stands for that exception.             *)
(***************************************************************************)
RECURSIVE skip_to_dname_end(_, _)
skip_to_dname_end(d, pos) ==
    IF pos >= Len(d) THEN pos
    ELSE LET value == d[pos + 1] IN
         IF value = 0 THEN pos + 1
         ELSE IF IsOffsetLabel(value)
         THEN (IF Len(d) - (pos + 1) < 1 THEN -1 ELSE pos + 2)
         ELSE IF Len(d) - (pos + 1) < value THEN -1
         ELSE skip_to_dname_end(d, pos + 1 + value)

\* the loop over the questions in the constructor
RECURSIVE skip_questions(_, _, _)
skip_questions(d, pos, n) ==
    IF n = 0 THEN pos
    ELSE LET p == skip_to_dname_end(d, pos) IN
         IF p = -1 \/ Len(d) - p < 4 THEN -1
         ELSE skip_questions(d, p + 4, n - 1)

RECURSIVE skip_to_section_end(_, _, _)
skip_to_section_end(d, pos, num_records) ==
    IF num_records = 0 THEN pos
    ELSE LET p == skip_to_dname_end(d, pos) IN
         IF p = -1 \/ Len(d) - p < 8 \/ Len(d) - (p + 8) < 2 THEN -1
         ELSE LET data_size == rd16(d, p + 8) IN
              IF Len(d) - (p + 10) < data_size THEN -1
              ELSE skip_to_section_end(d, p + 10 + data_size, num_records - 1)

\* the header read with its id in host (little-endian) byte order
read_header_le(buffer) ==
    [id |-> buffer[2] * 256 + buffer[1], flags |-> rd16(buffer, 2),
     questions |-> rd16(buffer, 4), answers |-> rd16(buffer, 6),
     authority |-> rd16(buffer, 8), additional |-> rd16(buffer, 10)]

\* stream.read(dns_)
read_header(buffer) ==
    [id |-> rd16(buffer, 0), flags |-> rd16(buffer, 2),
     questions |-> rd16(buffer, 4), answers |-> rd16(buffer, 6),
     authority |-> rd16(buffer, 8), additional |-> rd16(buffer, 10)]

EmptyHeader ==
    [id |-> 0, flags |-> 0, questions |-> 0, answers |-> 0,
     authority |-> 0, additional |-> 0]

\* DNS::DNS(): the unit an empty constructor builds
EmptyUnit ==
    [ok |-> TRUE, dns |-> EmptyHeader, records_data |-> << >>,
     answers_idx |-> 0, authority_idx |-> 0, additional_idx |-> 0]

Malformed ==
    [ok |-> FALSE, dns |-> EmptyHeader, records_data |-> << >>,
     answers_idx |-> 0, authority_idx |-> 0, additional_idx |-> 0]

\* DNS::DNS(buffer, total_sz)
ParseDNS(buffer) ==
    IF Len(buffer) < HeaderSize THEN Malformed
    ELSE
    LET hdr == read_header(buffer)
        d   == Slice(buffer, HeaderSize, Len(buffer))
    IN IF d = << >>
       THEN [ok |-> TRUE, dns |-> hdr, records_data |-> d,
             answers_idx |-> 0, authority_idx |-> 0, additional_idx |-> 0]
       ELSE
       LET a1 == skip_questions(d, 0, hdr.questions)
           a2 == IF a1 = -1 THEN -1 ELSE skip_to_section_end(d, a1, hdr.answers)
           a3 == IF a2 = -1 THEN -1 ELSE skip_to_section_end(d, a2, hdr.authority)
       IN IF a3 = -1 THEN Malformed
          ELSE [ok |-> TRUE, dns |-> hdr, records_data |-> d,
                answers_idx |-> a1, authority_idx |-> a2, additional_idx |-> a3]

\* write_serialization: the header followed by records_data
header_bytes(h) ==
    be16(h.id) \o be16(h.flags) \o be16(h.questions) \o be16(h.answers)
        \o be16(h.authority) \o be16(h.additional)

write_serialization(h, d) == header_bytes(h) \o d

\* header_size(): sizeof(dns_) + records_data_.size()
header_size(d) == HeaderSize + Len(d)

(***************************************************************************)
(* compose_name.  ComposeStart is the state on entry, ComposeStep one      *)
(* evaluation of the loop test on the byte at ptr and of one loop body.    *)
(* end_ptr = -1 stands for the null pointer.  A read of *ptr with ptr at   *)
(* or past the end of records_data is undefined behaviour: it returns the  *)
(* byte g, and the state records it in oob.  parity is the number of       *)
(* iterations made so far modulo 2, written the output bytes so far.       *)
(***************************************************************************)
\* the length test of the label branch, on current_out_ptr - out_ptr and size
name_too_long_late(out_len, size) == out_len + size > MaxDnameLen + 1

name_too_long(out_len, size) == out_len + size + 1 > MaxDnameLen

ComposeStart(d, ptr) ==
    [pc |-> "loop", data |-> d, start |-> ptr, ptr |-> ptr, out |-> << >>,
     end_ptr |-> -1, consumed |-> 0, written |-> 0, oob |-> FALSE, parity |-> 0]

ComposeStep(s, g) ==
    LET d    == s.data
        end  == Len(d)
        isOob == s.ptr >= end
        b    == IF isOob THEN g ELSE d[s.ptr + 1]
        t    == [s EXCEPT !.oob = s.oob \/ isOob, !.parity = 1 - s.parity]
    IN
    IF b = 0
    THEN [t EXCEPT !.pc = "returned",
                   !.written = Len(s.out) + 1,
                   !.consumed = (IF s.end_ptr = -1 THEN s.ptr + 1 ELSE s.end_ptr) - s.start]
    ELSE IF IsOffsetLabel(b)
    THEN IF s.ptr + 2 > end THEN [t EXCEPT !.pc = "malformed"]
         ELSE LET index == PointerIndex(d[s.ptr + 1], d[s.ptr + 2]) IN
              IF index < HeaderSize \/ index - HeaderSize >= end
              THEN [t EXCEPT !.pc = "malformed"]
              ELSE [t EXCEPT !.end_ptr = IF s.end_ptr = -1 THEN s.ptr + 2 ELSE s.end_ptr,
                             !.ptr = index - HeaderSize]
    ELSE LET size == b
             p    == s.ptr + 1
         IN IF p + size > end \/ name_too_long(Len(s.out), size)
            THEN [t EXCEPT !.pc = "malformed"]
            ELSE [t EXCEPT !.out = s.out
                                     \o (IF s.out # << >> THEN << Dot >> ELSE << >>)
                                     \o Slice(d, p, p + size),
                           !.written = Len(s.out) + (IF s.out # << >> THEN 1 ELSE 0) + size,
                           !.ptr = p + size]

\* compose_name run to its end.  seen holds the (ptr, output length) pairs of
\* the loop tests passed so far: meeting one again means the loop never ends
\* ("hang").  A loop test that reads past the end of the data is "oob".
RECURSIVE ComposeRun(_, _)
ComposeRun(s, seen) ==
    IF s.pc # "loop" THEN [status |-> s.pc, name |-> s.out, consumed |-> s.consumed]
    ELSE IF s.ptr >= Len(s.data) THEN [status |-> "oob", name |-> s.out, consumed |-> 0]
    ELSE IF << s.ptr, Len(s.out) >> \in seen
    THEN [status |-> "hang", name |-> s.out, consumed |-> 0]
    ELSE ComposeRun(ComposeStep(s, 0), seen \cup { << s.ptr, Len(s.out) >> })

compose_name(d, ptr) == ComposeRun(ComposeStart(d, ptr), {})

(***************************************************************************)
(* queries(): decodes the questions in [0, answers_idx).  The result is    *)
(* "returned" with the list, or the exception / failure that ended it.     *)
(***************************************************************************)
RECURSIVE queries_loop(_, _, _, _)
queries_loop(d, limit, pos, output) ==
    IF pos >= limit THEN [status |-> "returned", list |-> output]
    ELSE
    LET r == compose_name(d, pos) IN
    IF r.status # "returned" THEN [status |-> r.status, list |-> output]
    ELSE IF r.consumed > limit - pos \/ limit - (pos + r.consumed) < 4
    THEN [status |-> "malformed", list |-> output]
    ELSE LET p == pos + r.consumed IN
         queries_loop(d, limit, p + 4,
             Append(output, [dname |-> CStr(r.name), type |-> rd16(d, p),
                             qclass |-> rd16(d, p + 2)]))

queries(u) ==
    IF u.records_data # << >>
    THEN queries_loop(u.records_data, u.answers_idx, 0, << >>)
    ELSE [status |-> "returned", list |-> << >>]

(***************************************************************************)
(* convert_records: decodes the resource records in [start, end).          *)
(***************************************************************************)
RECURSIVE convert_records(_, _, _, _)
convert_records(d, pos, end, res) ==
    IF pos >= end THEN [status |-> "returned", list |-> res]
    ELSE
    LET r == compose_name(d, pos) IN
    IF r.status # "returned" THEN [status |-> r.status, list |-> res]
    ELSE IF r.consumed > end - pos \/ end - (pos + r.consumed) < 10
    THEN [status |-> "malformed", list |-> res]
    ELSE
    LET p      == pos + r.consumed
        type   == rd16(d, p)
        qclass == rd16(d, p + 2)
        ttl    == rd32(d, p + 4)
        size0  == rd16(d, p + 8)
        isMX   == type = MX
        q      == p + 10 + (IF isMX THEN 2 ELSE 0)
        data_size == IF isMX THEN (size0 + 65536 - 2) % 65536 ELSE size0
    IN
    IF (isMX /\ end - (p + 10) < 2) \/ end - q < data_size
    THEN [status |-> "malformed", list |-> res]
    ELSE IF type = AAAA
    THEN IF end - q < 16 THEN [status |-> "malformed", list |-> res]
         ELSE convert_records(d, q + 16, end,
                  Append(res, [dname |-> CStr(r.name), data |-> IPv6ToString(Slice(d, q, q + 16)),
                               type |-> type, qclass |-> qclass, ttl |-> ttl]))
    ELSE IF type = A
    THEN IF end - q < 4 THEN [status |-> "malformed", list |-> res]
         ELSE convert_records(d, q + 4, end,
                  Append(res, [dname |-> CStr(r.name), data |-> inline_convert_v4(Slice(d, q, q + 4)),
                               type |-> type, qclass |-> qclass, ttl |-> ttl]))
    ELSE IF type \in {NS, CNAME, DNAM, PTR, MX}
    THEN LET n == compose_name(d, q) IN
         IF n.status # "returned" THEN [status |-> n.status, list |-> res]
         ELSE convert_records(d, q + data_size, end,
                  Append(res, [dname |-> CStr(r.name), data |-> CStr(n.name),
                               type |-> type, qclass |-> qclass, ttl |-> ttl]))
    ELSE convert_records(d, q + data_size, end,
             Append(res, [dname |-> CStr(r.name),
                          data |-> IF data_size < 255 THEN CStr(Slice(d, q, q + data_size))
                                   ELSE Slice(d, q, q + data_size),
                          type |-> type, qclass |-> qclass, ttl |-> ttl]))

answers(u) ==
    IF u.answers_idx < Len(u.records_data)
    THEN convert_records(u.records_data, u.answers_idx, u.authority_idx, << >>)
    ELSE [status |-> "returned", list |-> << >>]

authority(u) ==
    IF u.authority_idx < Len(u.records_data)
    THEN convert_records(u.records_data, u.authority_idx, u.additional_idx, << >>)
    ELSE [status |-> "returned", list |-> << >>]

additional(u) ==
    IF u.additional_idx < Len(u.records_data)
    THEN convert_records(u.records_data, u.additional_idx, Len(u.records_data), << >>)
    ELSE [status |-> "returned", list |-> << >>]

(***************************************************************************)
(* The add operations, as functions of the unit u.  Each returns the unit  *)
(* after the call together with the insertion threshold, the inserted      *)
(* bytes, and whether update_records read outside records_data.            *)
(***************************************************************************)
Unit ==
    [ok |-> TRUE, dns |-> dns, records_data |-> records_data,
     answers_idx |-> answers_idx, authority_idx |-> authority_idx,
     additional_idx |-> additional_idx]

add_query(u, query, g) ==
    LET new_str   == query_bytes(query)
        offset    == Len(new_str)
        threshold == u.answers_idx
        r1 == update_records(u.records_data, u.answers_idx, u.dns.answers,
                             threshold, offset, g)
        r2 == update_records(r1.data, u.authority_idx, u.dns.authority,
                             threshold, offset, g)
        r3 == update_records(r2.data, u.additional_idx, u.dns.additional,
                             threshold, offset, g)
    IN [unit |-> [u EXCEPT !.records_data = insert_at(r3.data, threshold, new_str),
                           !.answers_idx = @ + offset,
                           !.authority_idx = @ + offset,
                           !.additional_idx = @ + offset,
                           !.dns.questions = (@ + 1) % 65536],
        threshold |-> threshold, bytes |-> new_str,
        oob |-> r1.oob \/ r2.oob \/ r3.oob]

\* add_record with sections = <<authority, additional>>, <<additional>> or << >>;
\* nsec is the number of sections passed (2, 1 or 0)
add_record(u, resource, nsec, g) ==
    LET bytes     == record_bytes(resource)
        offset    == Len(bytes)
        threshold == IF nsec = 0 THEN Len(u.records_data)
                     ELSE IF nsec = 2 THEN u.authority_idx
                     ELSE u.additional_idx
        r1 == IF nsec = 2
              THEN update_records(u.records_data, u.authority_idx, u.dns.authority,
                                  threshold, offset, g)
              ELSE [data |-> u.records_data, oob |-> FALSE]
        r2 == IF nsec >= 1
              THEN update_records(r1.data, u.additional_idx, u.dns.additional,
                                  threshold, offset, g)
              ELSE [data |-> r1.data, oob |-> FALSE]
    IN [unit |-> [u EXCEPT !.records_data = insert_at(r2.data, threshold, bytes),
                           !.authority_idx = IF nsec = 2 THEN @ + offset ELSE @,
                           !.additional_idx = IF nsec >= 1 THEN @ + offset ELSE @],
        threshold |-> threshold, bytes |-> bytes,
        oob |-> r1.oob \/ r2.oob]

add_answer(u, resource, g) ==
    LET r == add_record(u, resource, 2, g) IN
    [r EXCEPT !.unit.dns.answers = (@ + 1) % 65536]

add_authority(u, resource, g) ==
    LET r == add_record(u, resource, 1, g) IN
    [r EXCEPT !.unit.dns.authority = (@ + 1) % 65536]

add_additional(u, resource, g) ==
    LET r == add_record(u, resource, 0, g) IN
    [r EXCEPT !.unit.dns.additional = (@ + 1) % 65536]

(***************************************************************************)
(* Inputs.  Names and data are dotted strings over 'a' (97), 'b' (98),     *)
(* 'c' (99); "1.2.3.4" and "::1" are the address texts.  Class 1 is IN,    *)
(* type 16 (TXT) stands for the types whose data is opaque.                *)
(***************************************************************************)
NameA == << 97 >>
NameBC == << 98, 46, 99 >>
TextV4 == << 49, 46, 50, 46, 51, 46, 52 >>

Queries ==
    { [dname |-> n, type |-> A, qclass |-> 1] : n \in {NameA, NameBC} }

Resources ==
    { [dname |-> NameA,  data |-> TextV4,     type |-> A,     qclass |-> 1, ttl |-> 0],
      [dname |-> NameBC, data |-> NameA,      type |-> CNAME, qclass |-> 1, ttl |-> 1],
      [dname |-> NameA,  data |-> NameBC,     type |-> MX,    qclass |-> 1, ttl |-> 0],
      [dname |-> NameA,  data |-> NameA,      type |-> DNAM,  qclass |-> 1, ttl |-> 0],
      [dname |-> NameA,  data |-> V6Loopback, type |-> AAAA,  qclass |-> 1, ttl |-> 0],
      [dname |-> NameBC, data |-> << 1, 120 >>, type |-> 16, qclass |-> 1, ttl |-> 300] }

\* the bytes an out-of-bounds read may return
OOBBytes == {0, 255}

\* Wire-format building blocks for the packets handed to the parser
Ptr(v) == be16(49152 + v)
Hdr(q, an, au, ad) ==
    header_bytes([id |-> 4660, flags |-> 256, questions |-> q, answers |-> an,
                  authority |-> au, additional |-> ad])
Q(name) == name \o be16(A) \o be16(1)
RR(name, type, ttl, rdata) ==
    name \o be16(type) \o be16(1) \o be32(ttl) \o be16(Len(rdata)) \o rdata
EncA == << 1, 97, 0 >>
EncB == << 1, 98, 0 >>
Ip == << 1, 2, 3, 4 >>
Txt64 == << 63 >> \o [i \in 1..63 |-> 120]

\* question "a"; answer named by a pointer to it
PktPtrA == Hdr(1, 1, 0, 0) \o Q(EncA) \o RR(Ptr(12), A, 0, Ip)
\* answer with an uncompressed name whose CNAME data is a pointer to that name
PktCnamePtr == Hdr(1, 1, 0, 0) \o Q(EncA) \o RR(EncB, CNAME, 0, Ptr(19))
\* first answer named by a pointer to the name of the second (offset 35)
PktForward == Hdr(1, 2, 0, 0) \o Q(EncA) \o RR(Ptr(35), A, 0, Ip) \o RR(EncB, A, 0, Ip)
\* authority record named by a pointer into the answer's data (offset 31)
PktAuth == Hdr(1, 1, 1, 0) \o Q(EncA) \o RR(Ptr(12), CNAME, 0, EncB)
               \o RR(Ptr(31), NS, 0, Ptr(12))
\* additional record named by a pointer to the question of a longer packet
PktAddl == Hdr(1, 1, 0, 1) \o Q(EncA) \o RR(Ptr(12), A, 0, Ip)
               \o RR(Ptr(12), A, 0, Ip)
\* DNAM and MX data ending in a pointer
PktDnam == Hdr(1, 1, 0, 0) \o Q(EncA) \o RR(Ptr(12), DNAM, 0, << 1, 98 >> \o Ptr(12))
PktMx == Hdr(1, 1, 0, 0) \o Q(EncA) \o RR(Ptr(12), MX, 0, << 0, 10, 1, 98 >> \o Ptr(12))
\* a header alone, with every count at its maximum
PktCounts == Hdr(65535, 65535, 65535, 65535)
\* a question whose name is a pointer to itself
PktCycle == Hdr(1, 0, 0, 0) \o Q(Ptr(12))
\* two uncompressed answers, TTL 300
PktPlain == Hdr(0, 2, 0, 0) \o RR(EncB, A, 300, Ip) \o RR(EncB, A, 300, Ip)
\* two uncompressed TXT answers, TTL 0, the first with 64 bytes of data
PktTxt64 == Hdr(0, 2, 0, 0) \o RR(<< 0 >>, 16, 0, Txt64) \o RR(<< 0 >>, 16, 0, << 1, 120 >>)
\* a question cut short
PktShort == Hdr(1, 0, 0, 0) \o << 1 >>
\* a question whose name is a pointer into the header (value 0)
PktLowPtr == Hdr(1, 0, 0, 0) \o Q(Ptr(0))
\* an answer whose name ends in a pointer past the end of the packet
PktPastEnd == Hdr(1, 1, 0, 0) \o Q(EncA) \o RR(<< 1, 98 >> \o Ptr(100), A, 0, Ip)

Packets ==
    { PktPtrA, PktCnamePtr, PktForward, PktAuth, PktAddl, PktDnam, PktMx,
      PktCounts, PktCycle, PktPlain, PktTxt64, PktShort, PktLowPtr, PktPastEnd }

(***************************************************************************)
(* The state machine of one DNS unit.                                      *)
(***************************************************************************)
NoAdded == [q |-> << >>, an |-> << >>, au |-> << >>, ad |-> << >>]
NoLast == [op |-> "none", threshold |-> 0, bytes |-> << >>, oob |-> FALSE]
CnIdle == [ComposeStart(<< >>, 0) EXCEPT !.pc = "idle"]

InitUnit(u, how) ==
    /\ dns = u.dns
    /\ records_data = u.records_data
    /\ answers_idx = u.answers_idx
    /\ authority_idx = u.authority_idx
    /\ additional_idx = u.additional_idx
    /\ status = IF u.ok THEN "ok" ELSE "malformed"
    /\ origin = how
    /\ added = NoAdded
    /\ nadds = 0
    /\ pre = u
    /\ last = NoLast

\* no encode call, no IPv6 unit, no 802.11 frame
EnIdle == [pc |-> "idle"]
Ip6Idle == [pc |-> "idle"]
WifiIdle == [pc |-> "idle"]
RouteIdle == [pc |-> "idle"]
ProbeIdle == [pc |-> "idle"]

Init ==
    /\ \/ InitUnit(EmptyUnit, "built")
       \/ \E buffer \in Packets : InitUnit(ParseDNS(buffer), "parsed")
    /\ cn = CnIdle
    /\ en = EnIdle /\ ip6 = Ip6Idle /\ wifi = WifiIdle /\ route = RouteIdle /\ probe = ProbeIdle

\* The call returned (possibly after reading outside records_data), or the
\* out-of-bounds access ended the process.
Complete(op, r, section, entry) ==
    /\ pre' = Unit
    /\ last' = [op |-> op, threshold |-> r.threshold, bytes |-> r.bytes, oob |-> r.oob]
    /\ nadds' = nadds + 1
    /\ origin' = origin
    /\ cn' = cn
    /\ UNCHANGED others
    /\ \/ /\ dns' = r.unit.dns
          /\ records_data' = r.unit.records_data
          /\ answers_idx' = r.unit.answers_idx
          /\ authority_idx' = r.unit.authority_idx
          /\ additional_idx' = r.unit.additional_idx
          /\ status' = "ok"
          /\ added' = [added EXCEPT ![section] = Append(@, entry)]
       \/ /\ r.oob
          /\ status' = "crashed"
          /\ UNCHANGED <<dns, records_data, answers_idx, authority_idx,
                         additional_idx, added>>

CanAdd == status = "ok" /\ nadds < MaxAdds

AddQuery ==
    /\ CanAdd
    /\ \E query \in Queries, g \in OOBBytes :
           Complete("add_query", add_query(Unit, query, g), "q", query)

AddAnswer ==
    /\ CanAdd
    /\ \E resource \in Resources, g \in OOBBytes :
           Complete("add_answer", add_answer(Unit, resource, g), "an", resource)

AddAuthority ==
    /\ CanAdd
    /\ \E resource \in Resources, g \in OOBBytes :
           Complete("add_authority", add_authority(Unit, resource, g), "au", resource)

AddAdditional ==
    /\ CanAdd
    /\ \E resource \in Resources, g \in OOBBytes :
           Complete("add_additional", add_additional(Unit, resource, g), "ad", resource)

Next == AddQuery \/ AddAnswer \/ AddAuthority \/ AddAdditional

Spec == Init /\ [][Next]_vars

(***************************************************************************)
(* The state machine of one compose_name call: records_data contents and   *)
(* a starting position are drawn at Init, each step is one loop iteration. *)
(* The call runs to its end without interruption, hence weak fairness.     *)
(***************************************************************************)
Label63 == << 63 >> \o [i \in 1..63 |-> 120]

ComposeInputs ==
    { << 192, 12 >>,                     \* a pointer to itself
      << 192, 14, 192, 12 >>,            \* two pointers to each other
      << 1, 97, 192, 12 >>,              \* a label, then a pointer back to it
      Label63 \o << 192, 12 >>,          \* a 63-byte label, then a pointer back
      << 1, 97, 1, 98, 0 >>,             \* "a.b"
      << 1, 97 >>,                       \* a label that ends at the end of the data
      << 1, 97, 192, 11 >>,              \* pointer below the header size
      << 1, 97, 192, 16 >>,              \* pointer to the end of the data
      << 1, 97, 192 >>,                  \* pointer cut short
      << 5, 97, 0 >>,                    \* label longer than the data
      Label63 \o Label63 \o Label63 \o Label63 \o << 0 >> }   \* a 255-byte name

InitCompose ==
    /\ InitUnit(EmptyUnit, "built")
    /\ \E d \in ComposeInputs : \E p \in 0..(Len(d) - 1) : cn = ComposeStart(d, p)
    /\ en = EnIdle /\ ip6 = Ip6Idle /\ wifi = WifiIdle /\ route = RouteIdle /\ probe = ProbeIdle

ComposeIterate ==
    /\ cn.pc = "loop"
    /\ \E g \in OOBBytes : cn' = ComposeStep(cn, g)
    /\ UNCHANGED dnsvars
    /\ UNCHANGED others

NextCompose == ComposeIterate

SpecCompose == InitCompose /\ [][NextCompose]_vars /\ WF_vars(NextCompose)

(***************************************************************************)
(* Wire-format reading of records_data, used to state the properties:      *)
(* a name is a run of labels of 1..63 bytes closed by a zero byte or by a  *)
(* 2-byte pointer whose first byte has both top bits set.                  *)
(***************************************************************************)
DnameTypes == {NS, CNAME, PTR, DNAM, MX}

\* the position just past the name at pos, -1 if no name lies in [pos, end)
RECURSIVE NameEnd(_, _, _)
NameEnd(d, pos, end) ==
    IF pos >= end THEN -1
    ELSE LET b == d[pos + 1] IN
         IF b = 0 THEN pos + 1
         ELSE IF b >= 192 THEN (IF pos + 2 <= end THEN pos + 2 ELSE -1)
         ELSE IF b >= 64 THEN -1
         ELSE NameEnd(d, pos + 1 + b, end)

\* [pos, end) is a whole number of questions
RECURSIVE WholeQuestions(_, _, _)
WholeQuestions(d, pos, end) ==
    IF pos = end THEN TRUE
    ELSE LET p == NameEnd(d, pos, end) IN
         p # -1 /\ p + 4 <= end /\ WholeQuestions(d, p + 4, end)

\* [pos, end) is a whole number of resource records
RECURSIVE WholeRecords(_, _, _)
WholeRecords(d, pos, end) ==
    IF pos = end THEN TRUE
    ELSE LET p == NameEnd(d, pos, end) IN
         /\ p # -1
         /\ p + 10 <= end
         /\ p + 10 + rd16(d, p + 8) <= end
         /\ WholeRecords(d, p + 10 + rd16(d, p + 8), end)

Partitioned(u) ==
    /\ 0 <= u.answers_idx
    /\ u.answers_idx <= u.authority_idx
    /\ u.authority_idx <= u.additional_idx
    /\ u.additional_idx <= Len(u.records_data)
    /\ WholeQuestions(u.records_data, 0, u.answers_idx)
    /\ WholeRecords(u.records_data, u.answers_idx, u.authority_idx)
    /\ WholeRecords(u.records_data, u.authority_idx, u.additional_idx)
    /\ WholeRecords(u.records_data, u.additional_idx, Len(u.records_data))

\* the last operation was an add operation that returned without reading
\* outside records_data
Added == status = "ok" /\ last.op # "none" /\ ~last.oob

\* C1: after a successful parse and after every add operation the three
\* offsets are ordered within records_data and each of the four ranges they
\* delimit is a whole number of encoded questions / resource records.
C1_OffsetsPartition ==
    (status = "ok" /\ ~last.oob) => Partitioned(Unit)

\* C2: in a unit built from empty, each header count equals the number of
\* entries its reader returns and the number of calls of its add operation.
C2_CountsMatchReaders ==
    (origin = "built" /\ status = "ok" /\ ~last.oob) =>
        /\ queries(Unit).status = "returned"
        /\ answers(Unit).status = "returned"
        /\ authority(Unit).status = "returned"
        /\ additional(Unit).status = "returned"
        /\ dns.questions = Len(queries(Unit).list)
        /\ dns.answers = Len(answers(Unit).list)
        /\ dns.authority = Len(authority(Unit).list)
        /\ dns.additional = Len(additional(Unit).list)
        /\ dns.questions = Len(added.q)
        /\ dns.answers = Len(added.an)
        /\ dns.authority = Len(added.au)
        /\ dns.additional = Len(added.ad)

IsPrefix(a, b) == Len(a) <= Len(b) /\ SubSeq(b, 1, Len(a)) = a

\* C3: an add operation leaves every question and record that was present
\* before it decodable to the same name, type, class, TTL and data.
C3_ExistingRecordsKept ==
    Added =>
        /\ IsPrefix(queries(pre).list, queries(Unit).list)
        /\ IsPrefix(answers(pre).list, answers(Unit).list)
        /\ IsPrefix(authority(pre).list, authority(Unit).list)
        /\ IsPrefix(additional(pre).list, additional(Unit).list)

Reparsed == ParseDNS(write_serialization(dns, records_data))

\* C4: serializing a unit built from empty and parsing the bytes yields, in
\* each section, exactly the entries that were added, in insertion order.
C4_BuildSerializeParse ==
    (origin = "built" /\ status = "ok" /\ ~last.oob) =>
        /\ Reparsed.ok
        /\ queries(Reparsed) = [status |-> "returned", list |-> added.q]
        /\ answers(Reparsed) = [status |-> "returned", list |-> added.an]
        /\ authority(Reparsed) = [status |-> "returned", list |-> added.au]
        /\ additional(Reparsed) = [status |-> "returned", list |-> added.ad]

(***************************************************************************)
(* The compression pointers of a section, by the wire format: the pointer  *)
(* closing a record's name and, for the types that carry a name, the       *)
(* pointer closing the name in its data.                                   *)
(***************************************************************************)
\* the position of the pointer closing the name at pos, -1 if it has none
RECURSIVE NamePointerAt(_, _, _)
NamePointerAt(d, pos, end) ==
    IF pos >= end THEN -1
    ELSE LET b == d[pos + 1] IN
         IF b = 0 THEN -1
         ELSE IF b >= 192 THEN (IF pos + 2 <= end THEN pos ELSE -1)
         ELSE IF b >= 64 THEN -1
         ELSE NamePointerAt(d, pos + 1 + b, end)

\* positions of the pointers in record names / in record data of [pos, end)
RECURSIVE NamePointers(_, _, _)
NamePointers(d, pos, end) ==
    IF pos >= end \/ ~WholeRecords(d, pos, end) THEN {}
    ELSE LET p  == NameEnd(d, pos, end)
             nx == p + 10 + rd16(d, p + 8)
             np == NamePointerAt(d, pos, end)
         IN (IF np # -1 THEN {np} ELSE {}) \cup NamePointers(d, nx, end)

RECURSIVE DataPointers(_, _, _)
DataPointers(d, pos, end) ==
    IF pos >= end \/ ~WholeRecords(d, pos, end) THEN {}
    ELSE LET p    == NameEnd(d, pos, end)
             type == rd16(d, p)
             nx   == p + 10 + rd16(d, p + 8)
             q    == p + 10 + (IF type = MX THEN 2 ELSE 0)
             dp   == IF type \in DnameTypes THEN NamePointerAt(d, q, nx) ELSE -1
         IN (IF dp # -1 THEN {dp} ELSE {}) \cup DataPointers(d, nx, end)

\* where the sections shifted by the last operation began before it
ShiftedFrom ==
    IF last.op = "add_query" THEN pre.answers_idx
    ELSE IF last.op = "add_answer" THEN pre.authority_idx
    ELSE IF last.op = "add_authority" THEN pre.additional_idx
    ELSE Len(pre.records_data)

ShiftedNamePointers == NamePointers(pre.records_data, ShiftedFrom, Len(pre.records_data))
ShiftedDataPointers == DataPointers(pre.records_data, ShiftedFrom, Len(pre.records_data))

\* the 14-bit value of the pointer at position i of d; k is the insertion size
PointerValue(d, i) == PointerIndex(d[i + 1], d[i + 2])
InsertionSize == Len(last.bytes)

\* the pointer that stood at position i stands at i + k with value v
PointerNow(i, v) ==
    /\ records_data[i + InsertionSize + 1] >= 192
    /\ PointerValue(records_data, i + InsertionSize) = v

RewrittenByRule(i) ==
    LET v == PointerValue(pre.records_data, i) IN
    PointerNow(i, IF v > last.threshold THEN v + InsertionSize ELSE v)

\* C5: after an insertion of k bytes at threshold t, every compression
\* pointer p in a record of a shifted section reads p + k if p > t and
\* reads p otherwise.
C5_PointerRewriteRule ==
    Added => \A i \in ShiftedNamePointers \cup ShiftedDataPointers : RewrittenByRule(i)

\* C6: add_query adds the insertion size to every pointer of the answer,
\* authority and additional sections whose target index (value - 12) is at
\* or after answers_idx as it was before the insertion.
C6_AddQueryShiftsPointers ==
    (Added /\ last.op = "add_query") =>
        \A i \in ShiftedNamePointers \cup ShiftedDataPointers :
            LET v == PointerValue(pre.records_data, i) IN
            (v - HeaderSize >= pre.answers_idx) => PointerNow(i, v + InsertionSize)

\* the count of the section the last operation added to, and the others
OwnCount(h) ==
    IF last.op = "add_query" THEN h.questions
    ELSE IF last.op = "add_answer" THEN h.answers
    ELSE IF last.op = "add_authority" THEN h.authority
    ELSE h.additional

OtherCounts(h) ==
    << IF last.op = "add_query" THEN 0 ELSE h.questions,
       IF last.op = "add_answer" THEN 0 ELSE h.answers,
       IF last.op = "add_authority" THEN 0 ELSE h.authority,
       IF last.op = "add_additional" THEN 0 ELSE h.additional >>

\* the effect of the last add operation on the bytes, the offsets and the
\* header fields other than its own count
FrameOfAdd ==
    LET t == ShiftedFrom
        k == InsertionSize
    IN /\ Len(records_data) = Len(pre.records_data) + k
       /\ Slice(records_data, 0, t) = Slice(pre.records_data, 0, t)
       /\ Slice(records_data, t, t + k) = last.bytes
       /\ answers_idx = pre.answers_idx + (IF last.op = "add_query" THEN k ELSE 0)
       /\ authority_idx = pre.authority_idx
                            + (IF last.op \in {"add_query", "add_answer"} THEN k ELSE 0)
       /\ additional_idx = pre.additional_idx
                            + (IF last.op = "add_additional" THEN 0 ELSE k)
       /\ OtherCounts(dns) = OtherCounts(pre.dns)
       /\ dns.id = pre.dns.id
       /\ dns.flags = pre.dns.flags

\* C7 as stated: each add operation inserts at its section's end, shifts
\* exactly the later offsets, leaves the bytes before the insertion point and
\* the other header fields alone, and increments its own count by one.
C7_AddFrame_Original ==
    Added => (FrameOfAdd /\ OwnCount(dns) = OwnCount(pre.dns) + 1)

\* C7 (amended): as above, with the own count incremented by one modulo
\* 2^16, the width of the header field.
C7_AddFrame ==
    Added => (FrameOfAdd /\ OwnCount(dns) = (OwnCount(pre.dns) + 1) % 65536)

\* an add_query has shifted sections that hold compression pointers
C7_Witness ==
    /\ Added
    /\ last.op = "add_query"
    /\ pre.answers_idx > 0
    /\ ShiftedNamePointers # {}
    /\ FrameOfAdd

\* the entry passed to the last add operation
LastEntry ==
    LET sec == IF last.op = "add_query" THEN "q"
               ELSE IF last.op = "add_answer" THEN "an"
               ELSE IF last.op = "add_authority" THEN "au"
               ELSE "ad"
    IN added[sec][Len(added[sec])]

\* the data bytes of the record the last operation inserted
InsertedData ==
    LET rec == last.bytes
        p   == NameEnd(rec, 0, Len(rec))
    IN Slice(rec, p + 10, p + 10 + rd16(rec, p + 8))

\* C8: a record of type NS, CNAME, PTR, DNAM or MX is stored with its data
\* as an encoded domain name (after two preference bytes for MX), and every
\* later insertion rewrites the pointers inside such data by the rule used
\* for record names.
C8_DnameDataMaintained ==
    /\ (Added /\ last.op # "add_query" /\ LastEntry.type \in DnameTypes) =>
           InsertedData = (IF LastEntry.type = MX THEN << 0, 0 >> ELSE << >>)
                              \o encode_domain_name(LastEntry.data)
    /\ Added => \A i \in ShiftedDataPointers : RewrittenByRule(i)

(***************************************************************************)
(* Properties of compose_name, checked under SpecCompose.                  *)
(***************************************************************************)
\* C9: compose_name returns a name of at most 255 bytes or raises
\* malformed_packet, and never writes more than 256 bytes to its output.
C9_NameLengthBound ==
    /\ cn.pc \in {"loop", "returned", "malformed"}
    /\ Len(cn.out) <= 255
    /\ cn.written <= 256

\* compose_name returned a name of exactly 255 bytes, terminator included 256
C9_Witness ==
    cn.pc = "returned" /\ Len(cn.out) = 255 /\ cn.written = 256

\* C10: every compose_name call returns or raises malformed_packet.
C10_ComposeTerminates ==
    <>(cn.pc \in {"returned", "malformed"})

(***************************************************************************)
(* Out-of-range compression pointers in a parsed packet.                   *)
(***************************************************************************)
\* positions of the pointers closing the question names of [pos, end)
RECURSIVE QuestionPointers(_, _, _)
QuestionPointers(d, pos, end) ==
    IF pos >= end \/ ~WholeQuestions(d, pos, end) THEN {}
    ELSE LET np == NamePointerAt(d, pos, end)
         IN (IF np # -1 THEN {np} ELSE {})
                \cup QuestionPointers(d, NameEnd(d, pos, end) + 4, end)

\* the pointer at position i has a value below 12 or a target at or past the end
OutOfRange(d, i) ==
    PointerValue(d, i) < HeaderSize \/ PointerValue(d, i) - HeaderSize >= Len(d)

BadNamePointers(u) ==
    { i \in QuestionPointers(u.records_data, 0, u.answers_idx)
             \cup NamePointers(u.records_data, u.answers_idx, Len(u.records_data)) :
        OutOfRange(u.records_data, i) }

\* C11: the parsing constructor yields no unit for a packet in which the
\* name of a question or record ends in a compression pointer whose value
\* is below 12 or whose target index is at or past the end of records_data.
C11_ParseRejectsBadPointers ==
    (origin = "parsed" /\ nadds = 0 /\ status = "ok") => BadNamePointers(Unit) = {}

(***************************************************************************)
(* The state machine of one encode_domain_name call followed by the        *)
(* decoding of its result: the name is drawn at Init, Encode applies       *)
(* encode_domain_name, Decode applies compose_name to records_data holding *)
(* exactly the encoded bytes.                                              *)
(***************************************************************************)
MaxNameLen == 3

RECURSIVE Strings(_, _)
Strings(alphabet, n) ==
    IF n = 0 THEN { << >> }
    ELSE LET shorter == Strings(alphabet, n - 1)
         IN shorter \cup { Append(w, c) : w \in { x \in shorter : Len(x) = n - 1 },
                                           c \in alphabet }

Label64Name == [i \in 1..64 |-> 120]

EncodeInputs ==
    Strings({97, 98, Dot}, MaxNameLen)
        \cup { Label64Name, << 97, Dot >> \o [i \in 1..63 |-> 120] }

InitEncode ==
    /\ InitUnit(EmptyUnit, "built")
    /\ cn = CnIdle /\ ip6 = Ip6Idle /\ wifi = WifiIdle /\ route = RouteIdle /\ probe = ProbeIdle
    /\ \E dn \in EncodeInputs : en = [pc |-> "called", dn |-> dn]

Encode ==
    /\ en.pc = "called"
    /\ en' = [pc |-> "encoded", dn |-> en.dn, output |-> encode_domain_name(en.dn)]
    /\ UNCHANGED <<dnsvars, cn, ip6, wifi, route, probe>>

Decode ==
    /\ en.pc = "encoded"
    /\ en' = [pc |-> "decoded", dn |-> en.dn, output |-> en.output,
              result |-> compose_name(en.output, 0)]
    /\ UNCHANGED <<dnsvars, cn, ip6, wifi, route, probe>>

NextEncode == Encode \/ Decode

SpecEncode == InitEncode /\ [][NextEncode]_vars

\* the labels of a dotted name: the runs between its dots; a closing dot
\* closes the last label and starts no new one
RECURSIVE LabelsOf(_, _, _)
LabelsOf(n, i, cur) ==
    IF i > Len(n) THEN (IF cur = << >> THEN << >> ELSE << cur >>)
    ELSE IF n[i] = Dot THEN << cur >> \o LabelsOf(n, i + 1, << >>)
    ELSE LabelsOf(n, i + 1, Append(cur, n[i]))

RECURSIVE WireLabels(_)
WireLabels(ls) ==
    IF ls = << >> THEN << >>
    ELSE << Len(Head(ls)) >> \o Head(ls) \o WireLabels(Tail(ls))

\* labels separated by single dots, the first label not empty
DottedName(n) ==
    /\ n # << >>
    /\ n[1] # Dot
    /\ \A i \in 1..(Len(n) - 1) : ~(n[i] = Dot /\ n[i + 1] = Dot)

\* C12: for a dotted name n, encode_domain_name(n) is, label by label, a
\* length byte in 1..63 and the label's bytes, then one zero byte, with no
\* compression pointer; compose_name on the result returns n and consumes
\* all of it.
C12_EncodeRoundTrip ==
    (en.pc = "decoded" /\ DottedName(en.dn)) =>
        LET ls == LabelsOf(en.dn, 1, << >>) IN
        /\ \A k \in 1..Len(ls) : Len(ls[k]) \in 1..63
        /\ en.output = WireLabels(ls) \o << 0 >>
        /\ en.result.status = "returned"
        /\ en.result.name = en.dn
        /\ en.result.consumed = Len(en.output)

\* C13: a buffer B accepted by the parsing constructor is reproduced byte
\* for byte, compression pointers included, by serializing the parsed unit,
\* and header_size() is the length of B.
C13_ParseSerializeIdentity ==
    (origin = "parsed" /\ nadds = 0 /\ status = "ok") =>
        \A B \in Packets :
            ParseDNS(B) = Unit =>
                /\ header_size(records_data) = Len(B)
                /\ write_serialization(dns, records_data) = B

\* a parsed packet with compression pointers in names and in data
C13_Witness ==
    /\ origin = "parsed" /\ nadds = 0 /\ status = "ok"
    /\ ParseDNS(PktAuth) = Unit
    /\ NamePointers(records_data, answers_idx, Len(records_data)) # {}
    /\ write_serialization(dns, records_data) = PktAuth

(***************************************************************************)
(* The IPv6 unit (src/src/ipv6.cpp): the 40-byte fixed header, the list of *)
(* extension headers with the running total headers_size_, and the inner   *)
(* unit.  An inner unit is known by its kind, its serialized size and,     *)
(* when it is small, its bytes.                                            *)
(***************************************************************************)
Ipv6HeaderSize == 40
NO_NEXT_HEADER == 59
PROTO_TCP == 6
NoFlag == 255

\* HOP_BY_HOP, ROUTING, FRAGMENT, SECURITY_ENCAPSULATION, AUTHENTICATION,
\* NO_NEXT_HEADER, DESTINATION_OPTIONS / DESTINATION_ROUTING_OPTIONS, MOBILITY
ExtensionHeaderIds == {0, 43, 44, 50, 51, NO_NEXT_HEADER, 60, 135}

\* the extension header ids of a build that knows HOP_BY_HOP alone
is_extension_header_hop_only(header_id) == header_id = 0

is_extension_header(header_id) == header_id \in ExtensionHeaderIds

\* InputMemoryStream: operator bool (and a loop that never tests it) and
\* can_read, on the bytes that remain
stream_always(remaining) == TRUE
stream_nonempty(remaining) == remaining > 0
can_read(remaining, n) == remaining >= n

read_ipv6_header(buffer) ==
    [prefix |-> Slice(buffer, 0, 4),
     payload_length |-> rd16(buffer, 4),
     next_header |-> buffer[7],
     hop_limit |-> buffer[8],
     src_addr |-> Slice(buffer, 8, 24),
     dst_addr |-> Slice(buffer, 24, 40)]

ipv6_header_bytes(h) ==
    h.prefix \o be16(h.payload_length) \o << h.next_header, h.hop_limit >>
        \o h.src_addr \o h.dst_addr

NoInner == [kind |-> "none", size |-> 0, data |-> << >>]

\* The Protocol Dispatch Registry and the IPv6 allocator registry: TCP is
\* dispatched on 6 and needs its 20-byte header; the kind "USER" is
\* registered with the IPv6 allocator under id 200.
UserId == 200
pdu_from_flag(flag, bytes) ==
    IF flag = PROTO_TCP
    THEN IF Len(bytes) < 20 THEN [status |-> "malformed", pdu |-> NoInner]
         ELSE [status |-> "pdu", pdu |-> [kind |-> "TCP", size |-> Len(bytes), data |-> bytes]]
    ELSE [status |-> "none", pdu |-> NoInner]

allocate(id, bytes) ==
    IF id = UserId
    THEN [status |-> "pdu", pdu |-> [kind |-> "USER", size |-> Len(bytes), data |-> bytes]]
    ELSE [status |-> "none", pdu |-> NoInner]

RawPDU(bytes) == [kind |-> "RawPDU", size |-> Len(bytes), data |-> bytes]

pdu_flag_to_ip_type(kind) == IF kind = "TCP" THEN PROTO_TCP ELSE NoFlag
pdu_type_registered(kind) == kind = "USER"
pdu_type_to_id(kind) == UserId

\* IPv6(ip_dst, ip_src): version 6, everything else zero, no inner unit
NewIPv6(ip_dst, ip_src) ==
    [header |-> [prefix |-> << 96, 0, 0, 0 >>, payload_length |-> 0, next_header |-> 0,
                 hop_limit |-> 0, src_addr |-> ip_src, dst_addr |-> ip_dst],
     ext_headers |-> << >>,
     headers_size |-> 0,
     inner |-> NoInner]


add_ext_header(u, header) ==
    [u EXCEPT !.ext_headers = Append(@, header),
              !.headers_size = @ + Len(header.data) + 2]

\* the inner unit the constructor settles on for the bytes after the chain
inner_from(current_header, bytes) ==
    LET byFlag == pdu_from_flag(current_header, bytes)
        byId   == allocate(current_header, bytes)
    IN IF byFlag.status # "none" THEN byFlag
       ELSE IF byId.status # "none" THEN byId
       ELSE [status |-> "pdu", pdu |-> RawPDU(bytes)]

\* the loop of IPv6::IPv6(buffer, total_sz): pos is the stream position
RECURSIVE parse_ext_headers(_, _, _, _)
parse_ext_headers(buffer, pos, current_header, u) ==
    LET remaining == Len(buffer) - pos IN
    IF ~stream_nonempty(remaining) THEN [ok |-> TRUE, unit |-> u]
    ELSE IF is_extension_header(current_header)
    THEN IF ~can_read(remaining, 2) THEN [ok |-> FALSE, unit |-> u]
         ELSE LET ext_type     == buffer[pos + 1]
                  ext_size     == (buffer[pos + 2] + 1) * 8
                  payload_size == ext_size - 2
              IN IF ~can_read(remaining - 2, ext_size) THEN [ok |-> FALSE, unit |-> u]
                 ELSE parse_ext_headers(buffer, pos + 2 + payload_size, ext_type,
                          add_ext_header(u, [option |-> ext_type,
                                             data |-> Slice(buffer, pos + 2,
                                                            pos + 2 + payload_size)]))
    ELSE LET in == inner_from(current_header, Slice(buffer, pos, Len(buffer)))
         IN IF in.status = "malformed" THEN [ok |-> FALSE, unit |-> u]
            ELSE [ok |-> TRUE, unit |-> [u EXCEPT !.inner = in.pdu]]

\* IPv6::IPv6(buffer, total_sz)
ParseIPv6(buffer) ==
    IF ~can_read(Len(buffer), Ipv6HeaderSize)
    THEN [ok |-> FALSE, unit |-> NewIPv6(Zeros(16), Zeros(16))]
    ELSE LET h == read_ipv6_header(buffer)
         IN parse_ext_headers(buffer, Ipv6HeaderSize, h.next_header,
                [header |-> h, ext_headers |-> << >>, headers_size |-> 0,
                 inner |-> NoInner])

IPv6_header_size(u) == Ipv6HeaderSize + u.headers_size

\* set_last_next_header that always writes the fixed header
set_fixed_next_header(u, value) == [u EXCEPT !.header.next_header = value]

set_last_next_header(u, value) ==
    IF u.ext_headers = << >>
    THEN [u EXCEPT !.header.next_header = value]
    ELSE [u EXCEPT !.ext_headers[Len(u.ext_headers)].option = value]

\* the payload length of a build that forgets to subtract the fixed header
payload_length_whole(total_sz) == total_sz % 65536

\* static_cast<uint16_t>(total_sz - sizeof(header_))
payload_length(total_sz) == (total_sz - Ipv6HeaderSize) % 65536

\* write_header: option, length_field() / 8, the payload
\* write_header that emits the whole header's size in 8-byte units
write_header_whole_octets(header) ==
    << header.option, ((Len(header.data) + 2) \div 8) % 256 >> \o header.data

write_header(header) ==
    << header.option, (Len(header.data) \div 8) % 256 >> \o header.data

RECURSIVE write_headers(_)
write_headers(hs) ==
    IF hs = << >> THEN << >> ELSE write_header(Head(hs)) \o write_headers(Tail(hs))

\* the flag write_serialization computes for the inner unit
new_flag(inner) ==
    LET f == pdu_flag_to_ip_type(inner.kind)
    IN IF f = NoFlag /\ pdu_type_registered(inner.kind)
       THEN pdu_type_to_id(inner.kind) ELSE f

\* write_serialization(buffer, total_sz, parent): the unit as it is left and
\* the bytes written from the start of the buffer
IPv6_write_serialization(u, total_sz) ==
    LET u1 == IF u.inner.kind # "none"
              THEN set_last_next_header(u, new_flag(u.inner)) ELSE u
        u2 == [u1 EXCEPT !.header.payload_length = payload_length(total_sz)]
    IN [unit |-> u2,
        out  |-> ipv6_header_bytes(u2.header) \o write_headers(u2.ext_headers)]

\* matches_response of the inner unit: a RawPDU matches anything, TCP wants
\* the ports swapped, a unit without its own test matches nothing
inner_matches_response(inner, bytes) ==
    IF inner.kind = "RawPDU" THEN TRUE
    ELSE IF inner.kind = "TCP"
    THEN /\ Len(bytes) >= 20
         /\ Slice(bytes, 0, 2) = Slice(inner.data, 2, 4)
         /\ Slice(bytes, 2, 4) = Slice(inner.data, 0, 2)
    ELSE FALSE

\* the while loop of matches_response and the test that follows it
RECURSIVE skip_and_match(_, _, _, _)
skip_and_match(u, bytes, pos, current) ==
    LET total_sz == Len(bytes) - pos IN
    IF total_sz > 8 /\ is_extension_header(current)
    THEN IF (bytes[pos + 2] + 1) * 8 > total_sz THEN FALSE
         ELSE skip_and_match(u, bytes, pos + (bytes[pos + 2] + 1) * 8, bytes[pos + 1])
    ELSE IF ~is_extension_header(current)
    THEN inner_matches_response(u.inner, Slice(bytes, pos, Len(bytes)))
    ELSE FALSE

\* matches_response without the test for a multicast destination
IPv6_matches_response_strict(u, bytes) ==
    IF Len(bytes) < Ipv6HeaderSize THEN FALSE
    ELSE LET hdr == read_ipv6_header(bytes) IN
         IF u.header.src_addr = hdr.dst_addr /\ u.header.dst_addr = hdr.src_addr
         THEN IF u.inner.kind = "none" THEN TRUE
              ELSE skip_and_match(u, bytes, Ipv6HeaderSize, hdr.next_header)
         ELSE FALSE

IPv6_matches_response(u, bytes) ==
    IF Len(bytes) < Ipv6HeaderSize THEN FALSE
    ELSE LET hdr == read_ipv6_header(bytes) IN
         IF /\ u.header.src_addr = hdr.dst_addr
            /\ \/ u.header.dst_addr = hdr.src_addr
               \/ (u.header.dst_addr[1] = 255 /\ u.header.dst_addr[2] = 2)
         THEN IF u.inner.kind = "none" THEN TRUE
              ELSE skip_and_match(u, bytes, Ipv6HeaderSize, hdr.next_header)
         ELSE FALSE

(***************************************************************************)
(* The state machine of one IPv6 unit: built by IPv6(dst, src) or parsed   *)
(* from a buffer, then changed by add_ext_header and inner_pdu, serialized *)
(* by write_serialization and asked matches_response.                      *)
(***************************************************************************)
MaxIp6Ops == 3

AddrA == Zeros(15) \o << 1 >>
AddrB == Zeros(15) \o << 2 >>
AddrC == Zeros(15) \o << 3 >>
McastLink == << 255, 2 >> \o Zeros(13) \o << 1 >>
McastSite == << 255, 5 >> \o Zeros(13) \o << 1 >>

Ip6Hdr(payload, next, src, dst) ==
    << 96, 0, 0, 0 >> \o be16(payload) \o << next, 64 >> \o src \o dst

\* a TCP header from port 1 to port 2, and its answer
Tcp12 == << 0, 1, 0, 2 >> \o Zeros(16)
Tcp21 == << 0, 2, 0, 1 >> \o Zeros(16)
\* an 8-byte extension header announcing next
Ext8(next) == << next, 0 >> \o Zeros(6)

\* the fixed header alone, next header NO_NEXT_HEADER
PktNoNext == Ip6Hdr(0, NO_NEXT_HEADER, AddrA, AddrB)
\* the same with a payload length that promises 8 bytes
PktNoNextLen8 == Ip6Hdr(8, NO_NEXT_HEADER, AddrA, AddrB)
\* hop-by-hop, then TCP
PktHopTcp == Ip6Hdr(28, 0, AddrA, AddrB) \o Ext8(PROTO_TCP) \o Tcp12
\* hop-by-hop, a 16-byte routing header, then 3 bytes of protocol 253
PktHopRouting ==
    Ip6Hdr(27, 0, AddrA, AddrB) \o Ext8(43) \o << 253, 1 >> \o [i \in 1..14 |-> i]
        \o << 9, 9, 9 >>
\* hop-by-hop, then a single byte of protocol 253
PktHopOneByte == Ip6Hdr(9, 0, AddrA, AddrB) \o Ext8(253) \o << 7 >>
\* hop-by-hop ending exactly at the end of the buffer
PktHopExact == Ip6Hdr(8, 0, AddrA, AddrB) \o Ext8(NO_NEXT_HEADER)
\* hop-by-hop claiming 16 bytes with 12 in the buffer
PktOverrun == Ip6Hdr(12, 0, AddrA, AddrB) \o << PROTO_TCP, 1 >> \o Zeros(10)
\* hop-by-hop, then a routing header claiming 32 bytes with 10 in the buffer
PktOverrunSecond ==
    Ip6Hdr(18, 0, AddrA, AddrB) \o Ext8(43) \o << PROTO_TCP, 3 >> \o Zeros(8)
\* a routing header claiming 16 bytes with 12 in the buffer
PktOverrunRouting == Ip6Hdr(12, 43, AddrA, AddrB) \o << 253, 1 >> \o Zeros(10)
\* 39 bytes
PktShortHeader == Slice(PktNoNext, 0, 39)
\* one byte of a hop-by-hop header
PktHopCut == Ip6Hdr(1, 0, AddrA, AddrB) \o << PROTO_TCP >>
\* TCP cut short, protocol 253, the registered protocol 200
PktTcpCut == Ip6Hdr(4, PROTO_TCP, AddrA, AddrB) \o << 0, 1, 0, 2 >>
PktTcp == Ip6Hdr(20, PROTO_TCP, AddrA, AddrB) \o Tcp12
PktRaw == Ip6Hdr(3, 253, AddrA, AddrB) \o << 9, 9, 9 >>
PktUser == Ip6Hdr(4, UserId, AddrA, AddrB) \o << 1, 2, 3, 4 >>

Ip6Packets ==
    { PktNoNext, PktNoNextLen8, PktHopTcp, PktHopRouting, PktHopOneByte, PktHopExact,
      PktOverrun, PktOverrunSecond, PktOverrunRouting, PktShortHeader, PktHopCut,
      PktTcpCut, PktTcp, PktRaw, PktUser }

ExtHeaderInputs ==
    { [option |-> 43, data |-> Zeros(6)],
      [option |-> 60, data |-> << 1, 2, 3, 4, 5, 6, 7, 8 >>] }

InnerInputs ==
    { [kind |-> "TCP", size |-> 20, data |-> Tcp12],
      [kind |-> "USER", size |-> 4, data |-> << 1, 2, 3, 4 >>],
      [kind |-> "RawPDU", size |-> 65536, data |-> << >>] }

\* candidate answers handed to matches_response
Candidates ==
    { Ip6Hdr(0, NO_NEXT_HEADER, AddrB, AddrA),
      Slice(Ip6Hdr(0, NO_NEXT_HEADER, AddrB, AddrA), 0, 39),
      Ip6Hdr(0, NO_NEXT_HEADER, AddrB, McastLink),
      Ip6Hdr(0, NO_NEXT_HEADER, AddrB, McastSite),
      Ip6Hdr(0, NO_NEXT_HEADER, AddrC, AddrA),
      Ip6Hdr(0, NO_NEXT_HEADER, AddrB, AddrC),
      Ip6Hdr(20, PROTO_TCP, AddrB, AddrA) \o Tcp21,
      Ip6Hdr(20, PROTO_TCP, AddrB, AddrA) \o Tcp12,
      Ip6Hdr(28, 0, AddrB, AddrA) \o Ext8(PROTO_TCP) \o Tcp21,
      Ip6Hdr(9, 0, AddrB, AddrA) \o Ext8(253) \o << 7 >>,
      Ip6Hdr(8, 0, AddrB, AddrA) \o Ext8(253),
      Ip6Hdr(12, 0, AddrB, AddrA) \o << 253, 1 >> \o Zeros(10) }

Ip6Start(u, how, buffer) ==
    [pc |-> IF u.ok THEN "unit" ELSE "malformed", unit |-> u.unit, origin |-> how,
     buffer |-> buffer, nops |-> 0, op |-> "none", pre |-> u.unit,
     out |-> << >>, total |-> 0, cand |-> << >>, matched |-> FALSE]

\* no DNS unit is in play
NoDNS ==
    /\ dns = EmptyHeader /\ records_data = << >>
    /\ answers_idx = 0 /\ authority_idx = 0 /\ additional_idx = 0
    /\ status = "none" /\ origin = "built"
    /\ added = NoAdded /\ nadds = 0 /\ pre = EmptyUnit /\ last = NoLast
    /\ cn = CnIdle /\ en = EnIdle

InitIPv6 ==
    /\ NoDNS
    /\ wifi = WifiIdle /\ route = RouteIdle /\ probe = ProbeIdle
    /\ \/ \E dst \in {AddrB, McastLink} :
             ip6 = Ip6Start([ok |-> TRUE, unit |-> NewIPv6(dst, AddrA)], "built", << >>)
       \/ \E buffer \in Ip6Packets : ip6 = Ip6Start(ParseIPv6(buffer), "parsed", buffer)

Ip6CanAct == ip6.pc = "unit" /\ ip6.nops < MaxIp6Ops

Ip6Done(op, u, out, total, cand, matched) ==
    /\ ip6' = [ip6 EXCEPT !.unit = u, !.nops = @ + 1, !.op = op, !.pre = ip6.unit,
                          !.out = out, !.total = total, !.cand = cand,
                          !.matched = matched]
    /\ UNCHANGED <<dnsvars, cn, en, wifi, route, probe>>

Ip6AddExtHeader ==
    /\ Ip6CanAct
    /\ \E header \in ExtHeaderInputs :
           Ip6Done("add_ext_header", add_ext_header(ip6.unit, header),
                   << >>, 0, << >>, FALSE)

\* inner_pdu(pdu): the unit takes a new inner unit
Ip6SetInner ==
    /\ Ip6CanAct
    /\ \E pdu \in InnerInputs :
           Ip6Done("inner_pdu", [ip6.unit EXCEPT !.inner = pdu], << >>, 0, << >>, FALSE)

\* serialize(): write_serialization is handed the size of the whole chain
Ip6Serialize ==
    /\ Ip6CanAct
    /\ LET total_sz == IPv6_header_size(ip6.unit) + ip6.unit.inner.size
           r        == IPv6_write_serialization(ip6.unit, total_sz)
       IN Ip6Done("write_serialization", r.unit, r.out, total_sz, << >>, FALSE)

Ip6MatchesResponse ==
    /\ Ip6CanAct
    /\ \E bytes \in Candidates :
           Ip6Done("matches_response", ip6.unit, << >>, 0, bytes,
                   IPv6_matches_response(ip6.unit, bytes))

NextIPv6 == Ip6AddExtHeader \/ Ip6SetInner \/ Ip6Serialize \/ Ip6MatchesResponse

SpecIPv6 == InitIPv6 /\ [][NextIPv6]_vars

(***************************************************************************)
(* The wire format of an IPv6 packet, used to state the properties: after  *)
(* the 40-byte fixed header, while the next-header value names an          *)
(* extension header, one header of 8 * (length_octets + 1) bytes whose     *)
(* first byte is the next next-header value.                               *)
(***************************************************************************)
RECURSIVE WireChain(_, _, _, _)
WireChain(buffer, pos, current, exts) ==
    IF ~(current \in ExtensionHeaderIds)
    THEN [fits |-> TRUE, exts |-> exts, last |-> current, rest |-> pos]
    ELSE LET remaining == Len(buffer) - pos IN
         IF remaining = 0
         THEN [fits |-> TRUE, exts |-> exts, last |-> current, rest |-> pos]
         ELSE IF remaining < 2 \/ (buffer[pos + 2] + 1) * 8 > remaining
         THEN [fits |-> FALSE, exts |-> exts, last |-> current, rest |-> pos]
         ELSE WireChain(buffer, pos + (buffer[pos + 2] + 1) * 8, buffer[pos + 1],
                  Append(exts, [option |-> buffer[pos + 1],
                                data |-> Slice(buffer, pos + 2,
                                               pos + (buffer[pos + 2] + 1) * 8)]))

\* the chain of the packet the unit was parsed from
Chain == WireChain(ip6.buffer, Ipv6HeaderSize, ip6.buffer[7], << >>)

Ip6Parsed == ip6.pc # "idle" /\ ip6.origin = "parsed" /\ ip6.nops = 0

\* C15: a packet whose chain names k whole extension headers and then a
\* protocol that is no extension header parses to a unit with those k
\* headers in wire order (option = the next-header byte of the header,
\* payload = its 8 * (length_octets + 1) - 2 bytes) and with the inner unit
\* parsed from the bytes after the last header, dispatched on the last
\* next-header value.
C15_ParseExtensionChain ==
    (/\ Ip6Parsed
     /\ Len(ip6.buffer) >= Ipv6HeaderSize
     /\ Chain.fits
     /\ ~(Chain.last \in ExtensionHeaderIds)
     /\ inner_from(Chain.last, Slice(ip6.buffer, Chain.rest, Len(ip6.buffer))).status = "pdu")
    =>
        /\ ip6.pc = "unit"
        /\ ip6.unit.ext_headers = Chain.exts
        /\ ip6.unit.inner =
               inner_from(Chain.last, Slice(ip6.buffer, Chain.rest, Len(ip6.buffer))).pdu

\* C16: no unit comes out of a buffer shorter than the 40-byte fixed header,
\* nor of one in which an extension header of the chain claims, from its
\* first byte on, more bytes than the buffer still holds.
C16_ParseRejectsOverrun ==
    (Ip6Parsed /\ (Len(ip6.buffer) < Ipv6HeaderSize \/ ~Chain.fits))
        => ip6.pc = "malformed"

\* a routing header that claims 16 bytes where 12 are left
C16_Witness ==
    /\ Ip6Parsed
    /\ ip6.buffer = PktOverrunRouting
    /\ ~Chain.fits
    /\ ip6.pc = "malformed"

\* a parsed 40-byte packet: the fixed header alone, next header NO_NEXT_HEADER
HeaderOnlyNoNext ==
    /\ ip6.pc # "idle" /\ ip6.origin = "parsed"
    /\ Len(ip6.buffer) = Ipv6HeaderSize
    /\ ip6.buffer[7] = NO_NEXT_HEADER

SerializedOnce == ip6.nops = 1 /\ ip6.op = "write_serialization"

\* C17 as stated: the packet parses to a unit without extension headers
\* whose inner unit is a RawPDU of length 0, and serializing the unit gives
\* the 40 input bytes.
C17_HeaderOnly_Original ==
    HeaderOnlyNoNext =>
        /\ ip6.pc = "unit"
        /\ ip6.nops = 0 => (ip6.unit.ext_headers = << >> /\ ip6.unit.inner = RawPDU(<< >>))
        /\ SerializedOnce => ip6.out = ip6.buffer

\* C17, amended: the packet parses to a unit without extension headers and
\* without an inner unit; when its payload-length field is 0, serializing
\* the unit gives the 40 input bytes.
C17_HeaderOnly ==
    HeaderOnlyNoNext =>
        /\ ip6.pc = "unit"
        /\ ip6.nops = 0 => (ip6.unit.ext_headers = << >> /\ ip6.unit.inner = NoInner)
        /\ (SerializedOnce /\ rd16(ip6.buffer, 4) = 0) => ip6.out = ip6.buffer

C17_Witness ==
    /\ HeaderOnlyNoNext
    /\ ip6.buffer = PktNoNext
    /\ SerializedOnce
    /\ ip6.unit.inner = NoInner
    /\ ip6.out = PktNoNext

(***************************************************************************)
(* The next-header chain of a unit and of the bytes it emits.              *)
(***************************************************************************)
\* the wire discriminator of a kind of unit: the identity-to-id table, or
\* else the IPv6 allocator registry; 0 elements for a kind in neither
Discriminator(kind) ==
    IF kind = "TCP" THEN {6} ELSE IF kind = "USER" THEN {200} ELSE {}

\* the next-header byte of the fixed header and the option bytes of the
\* extension headers, in order
NextHeaderBytes(u) ==
    << u.header.next_header >> \o [i \in 1..Len(u.ext_headers) |-> u.ext_headers[i].option]

\* the same bytes as they stand in the emitted bytes out of unit u
RECURSIVE EmittedOptions(_, _, _)
EmittedOptions(out, pos, hs) ==
    IF hs = << >> THEN << >>
    ELSE << out[pos + 1] >> \o EmittedOptions(out, pos + 2 + Len(Head(hs).data), Tail(hs))

EmittedNextHeaderBytes(u, out) ==
    << out[7] >> \o EmittedOptions(out, Ipv6HeaderSize, u.ext_headers)

Ip6Serialized == ip6.pc = "unit" /\ ip6.op = "write_serialization"

C19_PayloadLength_Original ==
    Ip6Serialized => rd16(ip6.out, 4) = ip6.total - Ipv6HeaderSize

\* C19, amended: the field holds N - 40 modulo 2^16, which is N - 40 for
\* every N from 40 to 65575.
C19_PayloadLength ==
    Ip6Serialized =>
        /\ ip6.total >= Ipv6HeaderSize
        /\ ip6.out[5] * 256 + ip6.out[6] = (ip6.total - Ipv6HeaderSize) % 65536
        /\ ip6.total <= 65575 => ip6.out[5] * 256 + ip6.out[6] = ip6.total - Ipv6HeaderSize

\* a unit with extension headers and an inner unit serialized into N > 40 bytes
C19_Witness ==
    /\ Ip6Serialized
    /\ ip6.unit.ext_headers # << >>
    /\ ip6.unit.inner.kind = "TCP"
    /\ ip6.total > Ipv6HeaderSize + 20
    /\ rd16(ip6.out, 4) = ip6.total - Ipv6HeaderSize
    /\ rd16(ip6.out, 4) # ip6.pre.header.payload_length

(***************************************************************************)
(* matches_response: the candidate's addresses and its payload.            *)
(***************************************************************************)
Ip6Asked == ip6.pc = "unit" /\ ip6.op = "matches_response"

CandSrc == Slice(ip6.cand, 8, 24)
CandDst == Slice(ip6.cand, 24, 40)
LinkLocalMulticast(addr) == addr[1] = 255 /\ addr[2] = 2

\* the unit has no inner unit, or its inner unit matches what follows the
\* candidate's extension headers
InnerAgrees ==
    \/ ip6.unit.inner.kind = "none"
    \/ LET c == WireChain(ip6.cand, Ipv6HeaderSize, ip6.cand[7], << >>)
       IN /\ c.fits
          /\ ~(c.last \in ExtensionHeaderIds)
          /\ inner_matches_response(ip6.unit.inner, Slice(ip6.cand, c.rest, Len(ip6.cand)))

\* C20 as stated: with src = A and dst = B, a candidate of at least 40 bytes
\* matches when its src is B and its dst is A or in ff02::/16 (the inner
\* unit agreeing); every other candidate does not match.
C20_MatchesResponse_Original ==
    Ip6Asked =>
        LET named == /\ Len(ip6.cand) >= Ipv6HeaderSize
                     /\ CandSrc = ip6.unit.header.dst_addr
                     /\ \/ CandDst = ip6.unit.header.src_addr
                        \/ LinkLocalMulticast(CandDst)
        IN IF named THEN (InnerAgrees => ip6.matched) ELSE ~ip6.matched

\* extension headers as matches_response can skip them: each starts with
\* more than 8 bytes left and fits in them
RECURSIVE SkippedTo(_, _, _)
SkippedTo(c, pos, current) ==
    IF ~(current \in ExtensionHeaderIds) THEN pos
    ELSE IF Len(c) - pos <= 8 \/ (c[pos + 2] + 1) * 8 > Len(c) - pos THEN -1
    ELSE SkippedTo(c, pos + (c[pos + 2] + 1) * 8, c[pos + 1])

InnerAgreesAfterSkip ==
    \/ ip6.unit.inner.kind = "none"
    \/ LET rest == SkippedTo(ip6.cand, Ipv6HeaderSize, ip6.cand[7])
       IN /\ rest # -1
          /\ inner_matches_response(ip6.unit.inner, Slice(ip6.cand, rest, Len(ip6.cand)))

\* C20, amended: a candidate matches exactly when it has at least 40 bytes,
\* its dst is A, its src is B or B itself is in ff02::/16, and the inner
\* unit, if any, agrees with what follows the skipped extension headers.
C20_MatchesResponse ==
    Ip6Asked =>
        (ip6.matched <=>
            /\ Len(ip6.cand) >= Ipv6HeaderSize
            /\ CandDst = ip6.unit.header.src_addr
            /\ \/ CandSrc = ip6.unit.header.dst_addr
               \/ LinkLocalMulticast(ip6.unit.header.dst_addr)
            /\ InnerAgreesAfterSkip)

\* a unit sent to ff02::1 is answered from another address
C20_Witness ==
    /\ Ip6Asked
    /\ LinkLocalMulticast(ip6.unit.header.dst_addr)
    /\ Len(ip6.cand) >= Ipv6HeaderSize
    /\ CandSrc # ip6.unit.header.dst_addr
    /\ CandDst = ip6.unit.header.src_addr
    /\ ip6.matched

(***************************************************************************)
(* IEEE 802.11 frames.  A frame is its 24-byte header, the addr4 member,   *)
(* the fixed body of its class, the list of tagged options with the        *)
(* running byte total _options_size, and the inner unit.                   *)
(***************************************************************************)
Dot11HeaderSize == 24
Addr4Size == 6
MaxDot11Ops == 3

MANAGEMENT == 0
DATA == 2
ASSOC_REQ == 0
ASSOC_RESP == 1
BEACON == 8
DISASSOC == 10
QOS_DATA_DATA == 8

Dot11Kinds == {"base", "beacon", "disassoc", "assoc_req", "assoc_resp", "qos"}

\* sizeof of the fixed body each class appends to the header
BodySize(kind) ==
    CASE kind = "beacon"     -> 12
      [] kind = "disassoc"   -> 2
      [] kind = "assoc_req"  -> 4
      [] kind = "assoc_resp" -> 6
      [] kind = "qos"        -> 2
      [] OTHER               -> 0

\* the frame-control bit fields of a header
Dot11_protocol(h) == h[1] % 4
Dot11_type(h)     == (h[1] \div 4) % 4
Dot11_subtype(h)  == h[1] \div 16
to_ds(h)   == h[2] % 2 = 1
from_ds(h) == (h[2] \div 2) % 2 = 1

set_type(h, t)    == [h EXCEPT ![1] = (h[1] \div 16) * 16 + (t % 4) * 4 + (h[1] % 4)]
set_subtype(h, s) == [h EXCEPT ![1] = (s % 16) * 16 + (h[1] % 16)]
set_to_ds(h, b)   == [h EXCEPT ![2] = (h[2] \div 2) * 2 + (IF b THEN 1 ELSE 0)]
set_from_ds(h, b) ==
    [h EXCEPT ![2] = (h[2] \div 4) * 4 + (IF b THEN 2 ELSE 0) + (h[2] % 2)]

NoSnap == [kind |-> "none", bytes |-> << >>]
SNAP(bytes) == [kind |-> "SNAP", bytes |-> bytes]

\* what a member no constructor writes may hold
Uninit == {0, 170}
Fill(n, b) == [i \in 1..n |-> b]

\* IEEE802_11(dst, src): a zeroed header; the class constructors then set
\* type and subtype and zero the body
NewDot11(kind, addr4) ==
    LET zero == Zeros(Dot11HeaderSize)
        h == CASE kind = "base" -> zero
               [] kind = "beacon" -> set_subtype(set_type(zero, MANAGEMENT), BEACON)
               [] kind = "disassoc" -> set_subtype(set_type(zero, MANAGEMENT), DISASSOC)
               [] kind = "assoc_req" -> set_subtype(set_type(zero, MANAGEMENT), ASSOC_REQ)
               [] kind = "assoc_resp" -> set_subtype(set_type(zero, MANAGEMENT), ASSOC_RESP)
               [] OTHER -> set_subtype(set_type(zero, DATA), QOS_DATA_DATA)
    IN [kind |-> kind, header |-> h, addr4 |-> addr4, body |-> Zeros(BodySize(kind)),
        options |-> << >>, options_size |-> 0, inner |-> NoSnap]

\* add_tagged_option that counts the value bytes only
add_tagged_option_value_only(u, opt, len, val) ==
    [u EXCEPT !.options = Append(@, [option |-> opt, length |-> len,
                                     value |-> Slice(val, 0, len)]),
              !.options_size = @ + len]

add_tagged_option(u, opt, len, val) ==
    [u EXCEPT !.options = Append(@, [option |-> opt, length |-> len,
                                     value |-> Slice(val, 0, len)]),
              !.options_size = @ + len + 2]

\* parse_tagged_parameters that wants a byte left over after each value
RECURSIVE parse_tagged_parameters_strict(_, _)
parse_tagged_parameters_strict(u, buffer) ==
    IF Len(buffer) < 2 THEN u
    ELSE LET opcode == buffer[1]
             length == buffer[2]
             rest   == Slice(buffer, 2, Len(buffer))
         IN IF length >= Len(rest) THEN u
            ELSE parse_tagged_parameters_strict(
                     add_tagged_option(u, opcode, length, rest),
                     Slice(rest, length, Len(rest)))

RECURSIVE parse_tagged_parameters(_, _)
parse_tagged_parameters(u, buffer) ==
    IF Len(buffer) < 2 THEN u
    ELSE LET opcode == buffer[1]
             length == buffer[2]
             rest   == Slice(buffer, 2, Len(buffer))
         IN IF length > Len(rest) THEN u
            ELSE parse_tagged_parameters(add_tagged_option(u, opcode, length, rest),
                                         Slice(rest, length, Len(rest)))

\* IEEE802_11(buffer, total_sz): the outcomes, one for each content the
\* members the constructor leaves unwritten may hold
Dot11Base(kind, buffer) ==
    IF Len(buffer) < 2 THEN {[pc |-> "malformed"]}
    ELSE LET sz == IF Len(buffer) < Dot11HeaderSize THEN Len(buffer)
                   ELSE Dot11HeaderSize
         IN { [pc |-> "unit",
               unit |-> [kind |-> kind,
                         header |-> Slice(buffer, 0, sz) \o Fill(Dot11HeaderSize - sz, g),
                         addr4 |-> Fill(Addr4Size, g),
                         body |-> << >>, options |-> << >>, options_size |-> 0,
                         inner |-> IF Dot11_type(buffer) = 0 /\ Dot11_subtype(buffer) < 4
                                   THEN SNAP(Slice(buffer, sz, Len(buffer)))
                                   ELSE NoSnap]] : g \in Uninit }

\* the beacon and association constructors: body, then tagged parameters.
\* Under 24 bytes total_sz wraps around and the reads run off the buffer.
Dot11Management(kind, buffer) ==
    IF Len(buffer) < 2 THEN {[pc |-> "malformed"]}
    ELSE IF Len(buffer) < Dot11HeaderSize THEN {[pc |-> "crashed"]}
    ELSE IF Len(buffer) - Dot11HeaderSize < BodySize(kind) THEN {[pc |-> "malformed"]}
    ELSE { [pc |-> "unit",
            unit |-> parse_tagged_parameters(
                        [b.unit EXCEPT !.body = Slice(buffer, Dot11HeaderSize,
                                                      Dot11HeaderSize + BodySize(kind))],
                        Slice(buffer, Dot11HeaderSize + BodySize(kind), Len(buffer)))]
           : b \in Dot11Base(kind, buffer) }

\* the QoS data constructor: the control word is read at offset 24 behind
\* an assert; with fewer than 26 bytes the assert aborts or the read takes
\* what lies after the buffer
Dot11QoS(buffer) ==
    IF Len(buffer) < 2 THEN {[pc |-> "malformed"]}
    ELSE IF Len(buffer) < Dot11HeaderSize + 2
    THEN {[pc |-> "crashed"]} \cup
         { [pc |-> "unit", unit |-> [b.unit EXCEPT !.body = Fill(2, g)]]
           : b \in Dot11Base("qos", buffer), g \in Uninit }
    ELSE { [pc |-> "unit",
            unit |-> [b.unit EXCEPT !.body = Slice(buffer, Dot11HeaderSize,
                                                   Dot11HeaderSize + 2)]]
           : b \in Dot11Base("qos", buffer) }

ParseDot11(kind, buffer) ==
    CASE kind = "base" -> Dot11Base(kind, buffer)
      [] kind = "qos"  -> Dot11QoS(buffer)
      [] OTHER         -> Dot11Management(kind, buffer)

\* from_bytes: a beacon for type 0, subtype 8, else the base class
from_bytes(buffer) ==
    IF Len(buffer) < 2 THEN {[pc |-> "malformed"]}
    ELSE IF Dot11_type(buffer) = 0 /\ Dot11_subtype(buffer) = 8
    THEN IF Len(buffer) < Dot11HeaderSize THEN {[pc |-> "malformed"]}
         ELSE ParseDot11("beacon", buffer)
    ELSE ParseDot11("base", buffer)

\* lookup_option: the position in _options of the option returned, 0 for
\* the null pointer
RECURSIVE lookup_from(_, _, _)
lookup_from(opts, i, opt) ==
    IF i > Len(opts) THEN 0
    ELSE IF opts[i].option = opt THEN i
    ELSE lookup_from(opts, i + 1, opt)

lookup_option(u, opt) == lookup_from(u.options, 1, opt)

IEEE802_11_header_size(u) ==
    LET sz == Dot11HeaderSize + u.options_size
    IN IF to_ds(u.header) /\ from_ds(u.header) THEN sz + Addr4Size ELSE sz

\* header_size() of the frame's class
Dot11_header_size(u) == IEEE802_11_header_size(u) + BodySize(u.kind)

write_fixed_parameters(u) == u.body

RECURSIVE write_options(_)
write_options(opts) ==
    IF opts = << >> THEN << >>
    ELSE << Head(opts).option, Head(opts).length >> \o Head(opts).value
         \o write_options(Tail(opts))

Dot11_write_serialization(u) ==
    u.header
    \o (IF to_ds(u.header) /\ from_ds(u.header) THEN u.addr4 ELSE << >>)
    \o write_fixed_parameters(u)
    \o write_options(u.options)

(***************************************************************************)
(* One 802.11 frame, built or parsed, then changed by its mutators and     *)
(* serialized.                                                             *)
(***************************************************************************)
Dot11Hdr(type, subtype, flags) ==
    << subtype * 16 + type * 4, flags, 0, 0 >>
    \o Fill(6, 1) \o Fill(6, 2) \o Fill(6, 3) \o << 16, 0 >>

BothDS == 3
SsidTag == << 0, 2, 97, 98 >>
RatesTag == << 1, 1, 130 >>
OverrunTag == << 3, 5, 1 >>
BeaconBody == << 0, 0, 0, 0, 0, 0, 0, 0, 100, 0, 17, 4 >>

Dot11Frames ==
    { <<"base", << >>>>,
      <<"base", << 8 >>>>,
      <<"base", << DATA * 4, 1 >>>>,
      <<"base", << DATA * 4, BothDS >>>>,
      <<"base", Dot11Hdr(MANAGEMENT, 4, 0)>>,
      <<"base", Dot11Hdr(MANAGEMENT, 2, 0) \o << 170, 170, 3 >>>>,
      <<"base", Dot11Hdr(DATA, 0, BothDS) \o Fill(6, 4) \o << 170, 170 >>>>,
      <<"beacon", Dot11Hdr(MANAGEMENT, BEACON, 0) \o BeaconBody \o SsidTag \o RatesTag>>,
      <<"beacon", Dot11Hdr(MANAGEMENT, BEACON, BothDS) \o Fill(6, 4) \o BeaconBody
                  \o SsidTag>>,
      <<"beacon", Dot11Hdr(MANAGEMENT, BEACON, 0) \o BeaconBody \o SsidTag \o OverrunTag>>,
      <<"beacon", Dot11Hdr(MANAGEMENT, BEACON, 0) \o BeaconBody \o << 7 >>>>,
      <<"beacon", Dot11Hdr(MANAGEMENT, BEACON, 0) \o Zeros(11)>>,
      <<"beacon", << MANAGEMENT * 4 + BEACON * 16, 0, 0 >>>>,
      <<"assoc_req", Dot11Hdr(MANAGEMENT, ASSOC_REQ, 0) \o << 17, 4, 10, 0 >> \o SsidTag>>,
      <<"assoc_req", Dot11Hdr(MANAGEMENT, ASSOC_REQ, 0) \o << 17, 4, 10 >>>>,
      <<"assoc_resp", Dot11Hdr(MANAGEMENT, ASSOC_RESP, 1) \o << 17, 4, 0, 0, 1, 192 >>
                      \o RatesTag>>,
      <<"qos", Dot11Hdr(DATA, QOS_DATA_DATA, 1) \o << 5, 0 >> \o << 170, 170 >>>>,
      <<"qos", Dot11Hdr(DATA, QOS_DATA_DATA, BothDS) \o << 5, 0 >>>>,
      <<"qos", Dot11Hdr(DATA, QOS_DATA_DATA, 0)>>,
      <<"from_bytes", Dot11Hdr(MANAGEMENT, BEACON, 0) \o BeaconBody \o RatesTag>>,
      <<"from_bytes", << MANAGEMENT * 4 + BEACON * 16, 0 >>>>,
      <<"from_bytes", Dot11Hdr(DATA, 0, 2) \o << 170 >>>> }

\* the arguments the option mutators (ssid, channel, rates, ...) pass on
TaggedOptionInputs ==
    { [opt |-> 0, len |-> 2, val |-> << 97, 98 >>],
      [opt |-> 3, len |-> 1, val |-> << 6 >>],
      [opt |-> 0, len |-> 0, val |-> << >>] }

LookupTags == {0, 1, 3}

NoFrame == NewDot11("base", Zeros(Addr4Size))

Dot11Start(o, how, cls, buffer) ==
    [pc |-> o.pc, unit |-> IF o.pc = "unit" THEN o.unit ELSE NoFrame,
     origin |-> how, cls |-> cls, buffer |-> buffer, pre |-> NoFrame, tag |-> 0,
     found |-> 0, nops |-> 0, op |-> "none", out |-> << >>]

InitDot11 ==
    /\ NoDNS
    /\ ip6 = Ip6Idle /\ route = RouteIdle /\ probe = ProbeIdle
    /\ \/ \E kind \in Dot11Kinds, g \in Uninit :
             wifi = Dot11Start([pc |-> "unit", unit |-> NewDot11(kind, Fill(Addr4Size, g))],
                               "built", kind, << >>)
       \/ \E f \in Dot11Frames :
             \E o \in (IF f[1] = "from_bytes" THEN from_bytes(f[2])
                       ELSE ParseDot11(f[1], f[2])) :
                wifi = Dot11Start(o, "parsed", f[1], f[2])

Dot11CanAct == wifi.pc = "unit" /\ wifi.nops < MaxDot11Ops

Dot11Done(op, u, out) ==
    /\ wifi' = [wifi EXCEPT !.unit = u, !.nops = @ + 1, !.op = op, !.out = out,
                           !.pre = wifi.unit, !.tag = 0, !.found = 0]
    /\ UNCHANGED <<dnsvars, cn, en, ip6, route, probe>>

Dot11AddTaggedOption ==
    /\ Dot11CanAct
    /\ \E o \in TaggedOptionInputs :
           Dot11Done("add_tagged_option",
                     add_tagged_option(wifi.unit, o.opt, o.len, o.val), << >>)

Dot11ToDs ==
    /\ Dot11CanAct
    /\ \E new_value \in BOOLEAN :
           Dot11Done("to_ds", [wifi.unit EXCEPT !.header = set_to_ds(@, new_value)], << >>)

Dot11FromDs ==
    /\ Dot11CanAct
    /\ \E new_value \in BOOLEAN :
           Dot11Done("from_ds", [wifi.unit EXCEPT !.header = set_from_ds(@, new_value)],
                     << >>)

Dot11Serialize ==
    /\ Dot11CanAct
    /\ Dot11Done("write_serialization", wifi.unit, Dot11_write_serialization(wifi.unit))

\* lookup_option reads the frame and leaves it as it is
Dot11LookupOption ==
    /\ wifi.pc = "unit"
    /\ \E opt \in LookupTags :
           wifi' = [wifi EXCEPT !.op = "lookup_option", !.out = << >>, !.pre = wifi.unit,
                                !.tag = opt, !.found = lookup_option(wifi.unit, opt)]
    /\ UNCHANGED <<dnsvars, cn, en, ip6, route, probe>>

NextDot11 ==
    Dot11AddTaggedOption \/ Dot11ToDs \/ Dot11FromDs \/ Dot11Serialize
    \/ Dot11LookupOption

SpecDot11 == InitDot11 /\ [][NextDot11]_vars

\* every unit family: a DNS message, an IPv6 unit or an 802.11 frame
InitUnits == Init \/ InitIPv6 \/ InitDot11
NextUnits == Next \/ NextIPv6 \/ NextDot11
SpecUnits == InitUnits /\ [][NextUnits]_vars

(***************************************************************************)
(* Serialized size.                                                        *)
(***************************************************************************)
RECURSIVE ExtHeadersBytes(_)
ExtHeadersBytes(hs) ==
    IF hs = << >> THEN 0 ELSE Len(Head(hs).data) + 2 + ExtHeadersBytes(Tail(hs))

RECURSIVE TaggedOptionsBytes(_)
TaggedOptionsBytes(opts) ==
    IF opts = << >> THEN 0 ELSE Head(opts).length + 2 + TaggedOptionsBytes(Tail(opts))

\* the bytes an 802.11 frame writes besides header, body and options
Addr4Bytes(u) ==
    Len(Dot11_write_serialization(u)) - Dot11HeaderSize - BodySize(u.kind)
    - TaggedOptionsBytes(u.options)

Ip6Reserialized ==
    /\ ip6.pc = "unit" /\ ip6.origin = "parsed" /\ ip6.nops = 1
    /\ ip6.op = "write_serialization" /\ ip6.total = Len(ip6.buffer)

\* where the next-header bytes of a unit's chain are written, from 1
RECURSIVE ExtHeaderStarts(_, _)
ExtHeaderStarts(hs, pos) ==
    IF hs = << >> THEN {}
    ELSE {pos + 1} \cup ExtHeaderStarts(Tail(hs), pos + Len(Head(hs).data) + 2)

NextHeaderPositions(u) == {7} \cup ExtHeaderStarts(u.ext_headers, Ipv6HeaderSize)
PayloadLengthPositions == {5, 6}

\* C21 as stated: the written fixed header and extension headers equal the
\* packet's bytes everywhere but at the next-header bytes of the chain.
C21_RoundTrip_Original ==
    Ip6Reserialized =>
        /\ Len(ip6.out) <= Len(ip6.buffer)
        /\ \A i \in 1..Len(ip6.out) :
               i \in NextHeaderPositions(ip6.unit) \/ ip6.out[i] = ip6.buffer[i]

\* C21, amended: the payload-length field is written anew as well, as the
\* packet's length less 40; with that the headers end where the packet's
\* chain ends and every length byte L comes back as L.
C21_RoundTrip ==
    Ip6Reserialized =>
        /\ Len(ip6.out) = Chain.rest
        /\ \A i \in 1..Len(ip6.out) :
               \/ i \in NextHeaderPositions(ip6.unit)
               \/ i \in PayloadLengthPositions
               \/ ip6.out[i] = ip6.buffer[i]
        /\ rd16(ip6.out, 4) = Len(ip6.buffer) - Ipv6HeaderSize
        /\ rd16(ip6.buffer, 4) = Len(ip6.buffer) - Ipv6HeaderSize =>
               \A i \in PayloadLengthPositions : ip6.out[i] = ip6.buffer[i]

\* a packet with two extension headers and a payload comes back
C21_Witness ==
    /\ Ip6Reserialized
    /\ Len(ip6.unit.ext_headers) >= 2
    /\ ip6.unit.inner.kind # "none"
    /\ Len(ip6.out) = Ipv6HeaderSize + 24
    /\ ip6.out[Ipv6HeaderSize + 2] = ip6.buffer[Ipv6HeaderSize + 2]

(***************************************************************************)
(* Parsing a base 802.11 frame.                                            *)
(***************************************************************************)
Dot11ParsedBase ==
    wifi.pc # "idle" /\ wifi.origin = "parsed" /\ wifi.cls = "base" /\ wifi.nops = 0

\* C22: a base frame parses exactly when it has the 2 frame-control bytes,
\* and its inner unit is a SNAP unit exactly when its type is DATA and its
\* subtype is below 4.
C22_BaseParse ==
    Dot11ParsedBase =>
        /\ wifi.pc = "malformed" <=> Len(wifi.buffer) < 2
        /\ wifi.pc = "unit" =>
               (wifi.unit.inner.kind = "SNAP"
                    <=> (Dot11_type(wifi.buffer) = DATA /\ Dot11_subtype(wifi.buffer) < 4))

(***************************************************************************)
(* addr4.                                                                  *)
(***************************************************************************)
\* a parsed frame whose input has both DS bits, addr4 and the whole body
Dot11ParsedWithAddr4 ==
    /\ wifi.pc = "unit" /\ wifi.origin = "parsed" /\ wifi.nops = 0
    /\ to_ds(wifi.buffer) /\ from_ds(wifi.buffer)
    /\ Len(wifi.buffer) >= Dot11HeaderSize + Addr4Size + BodySize(wifi.unit.kind)

\* C23: parsing a frame with to-DS and from-DS reads the 6 bytes after
\* sequence-control as addr4 and the body after them, and serializing the
\* parsed frame gives the input frame back.
C23_Addr4RoundTrip ==
    Dot11ParsedWithAddr4 =>
        /\ wifi.unit.addr4 = Slice(wifi.buffer, Dot11HeaderSize, Dot11HeaderSize + Addr4Size)
        /\ wifi.unit.body = Slice(wifi.buffer, Dot11HeaderSize + Addr4Size,
                                  Dot11HeaderSize + Addr4Size + BodySize(wifi.unit.kind))
        /\ Dot11_write_serialization(wifi.unit) \o wifi.unit.inner.bytes = wifi.buffer

(***************************************************************************)
(* Tagged parameters: a region of any content is decoded into a frame,     *)
(* options are added and looked up.                                        *)
(***************************************************************************)
MaxRegionLen == 4
RegionBytes == {0, 1, 2}

RECURSIVE Regions(_)
Regions(n) ==
    IF n = 0 THEN {<< >>}
    ELSE Regions(n - 1) \cup {<<b>> \o r : b \in RegionBytes, r \in Regions(n - 1)}

InitTagged ==
    /\ NoDNS
    /\ ip6 = Ip6Idle /\ route = RouteIdle /\ probe = ProbeIdle
    /\ \E region \in Regions(MaxRegionLen) :
           wifi = Dot11Start([pc |-> "unit",
                              unit |-> parse_tagged_parameters(
                                           NewDot11("beacon", Zeros(Addr4Size)), region)],
                             "region", "beacon", region)

NextTagged == Dot11AddTaggedOption \/ Dot11LookupOption

SpecTagged == InitTagged /\ [][NextTagged]_vars

\* the region's bytes that the decoded options account for
DecodedBytes == TaggedOptionsBytes(wifi.unit.options)

\* what is left of the region after the decoded options
Undecoded == Slice(wifi.buffer, DecodedBytes, Len(wifi.buffer))

\* C24: the decoded options are the region's leading whole triplets in wire
\* order, and what follows them is shorter than 2 bytes or declares more
\* value bytes than are left; add_tagged_option appends and adds length + 2
\* to the byte total; lookup_option gives the first option with the tag, or
\* none.
C24_TaggedParameters ==
    /\ (wifi.pc = "unit" /\ wifi.origin = "region" /\ wifi.nops = 0) =>
           /\ DecodedBytes <= Len(wifi.buffer)
           /\ write_options(wifi.unit.options) = Slice(wifi.buffer, 0, DecodedBytes)
           /\ \A i \in 1..Len(wifi.unit.options) :
                  wifi.unit.options[i].length = Len(wifi.unit.options[i].value)
           /\ wifi.unit.options_size = DecodedBytes
           /\ \/ Len(Undecoded) < 2
              \/ Undecoded[2] > Len(Undecoded) - 2
    /\ (wifi.pc = "unit" /\ wifi.op = "add_tagged_option") =>
           LET n == Len(wifi.pre.options) IN
           /\ Len(wifi.unit.options) = n + 1
           /\ SubSeq(wifi.unit.options, 1, n) = wifi.pre.options
           /\ wifi.unit.options_size
                  = wifi.pre.options_size + wifi.unit.options[n + 1].length + 2
    /\ (wifi.pc = "unit" /\ wifi.op = "lookup_option") =>
           /\ wifi.unit = wifi.pre
           /\ wifi.found \in 0..Len(wifi.unit.options)
           /\ wifi.found = 0 =>
                  \A i \in 1..Len(wifi.unit.options) : wifi.unit.options[i].option # wifi.tag
           /\ wifi.found # 0 =>
                  /\ wifi.unit.options[wifi.found].option = wifi.tag
                  /\ \A i \in 1..(wifi.found - 1) : wifi.unit.options[i].option # wifi.tag

\* a region of two whole options is decoded; an option with
\* the tag of the first is added, and the lookup still gives the first
C24_Witness ==
    /\ wifi.pc = "unit" /\ wifi.origin = "region" /\ wifi.buffer = << 0, 0, 1, 0 >>
    /\ wifi.op = "lookup_option" /\ wifi.tag = 0 /\ wifi.found = 1
    /\ Len(wifi.unit.options) = 3
    /\ wifi.unit.options[3].option = 0

(***************************************************************************)
(* NetworkInterface(IPv4Address): the interface that routes an address.    *)
(* Addresses and masks are 4 bytes in network order.                       *)
(***************************************************************************)
MaxRoutes == 3

Ip4(a, b, c, d) == << a, b, c, d >>
Loopback4 == Ip4(127, 0, 0, 1)

RECURSIVE BitAnd(_, _, _)
BitAnd(x, y, bits) ==
    IF bits = 0 THEN 0
    ELSE (x % 2) * (y % 2) + 2 * BitAnd(x \div 2, y \div 2, bits - 1)

\* ip_int & mask
And32(ip, mask) == [i \in 1..4 |-> BitAnd(ip[i], mask[i], 8)]

\* a > b for the uint32_t values that hold two addresses, as a little-endian
\* host reads them: the last byte is the most significant
RECURSIVE HostGreater(_, _, _)
HostGreater(a, b, i) ==
    IF i = 0 THEN FALSE
    ELSE IF a[i] # b[i] THEN a[i] > b[i]
    ELSE HostGreater(a, b, i - 1)

RouteEntry(destination, mask, metric, interface) ==
    [destination |-> destination, mask |-> mask, metric |-> metric,
     interface |-> interface]

\* the test that lets a matching entry replace best_match
replaces(it, best) ==
    \/ HostGreater(it.mask, best.mask, 4)
    \/ it.metric < best.metric

\* the loop over the routing entries; best_match is a position, 0 for null
RECURSIVE best_match_from(_, _, _, _)
best_match_from(entries, i, ip, best_match) ==
    IF i > Len(entries) THEN best_match
    ELSE LET it == entries[i]
         IN IF /\ And32(ip, it.mask) = it.destination
               /\ (best_match = 0 \/ replaces(it, entries[best_match]))
            THEN best_match_from(entries, i + 1, ip, i)
            ELSE best_match_from(entries, i + 1, ip, best_match)

resolve_index(name) == name

\* NetworkInterface(ip) with the routing table entries
resolve(ip, entries) ==
    IF ip = Loopback4
    THEN [pc |-> "returned", best_match |-> 0, iface_id |-> resolve_index("lo")]
    ELSE LET best_match == best_match_from(entries, 1, ip, 0)
         IN IF best_match = 0
            THEN [pc |-> "invalid_interface", best_match |-> 0, iface_id |-> ""]
            ELSE [pc |-> "returned", best_match |-> best_match,
                  iface_id |-> resolve_index(entries[best_match].interface)]

RoutePool ==
    { RouteEntry(Ip4(0, 0, 0, 0), Ip4(0, 0, 0, 0), 0, "eth0"),
      RouteEntry(Ip4(0, 0, 0, 0), Ip4(0, 0, 0, 0), 100, "ppp0"),
      RouteEntry(Ip4(10, 0, 0, 0), Ip4(255, 0, 0, 0), 10, "eth1"),
      RouteEntry(Ip4(10, 0, 1, 0), Ip4(255, 255, 255, 0), 20, "eth2"),
      RouteEntry(Ip4(10, 0, 1, 0), Ip4(255, 255, 255, 0), 5, "wlan0"),
      RouteEntry(Ip4(10, 0, 1, 0), Ip4(255, 255, 255, 128), 50, "tun0"),
      RouteEntry(Ip4(192, 168, 0, 0), Ip4(255, 255, 0, 0), 1, "eth3") }

RECURSIVE RouteLists(_)
RouteLists(n) ==
    IF n = 0 THEN {<< >>}
    ELSE RouteLists(n - 1)
         \cup {Append(l, e) : l \in {x \in RouteLists(n - 1) : Len(x) = n - 1},
                              e \in RoutePool}

RouteIps == {Ip4(10, 0, 1, 1), Ip4(10, 2, 0, 1), Ip4(172, 16, 0, 1), Loopback4}

\* nothing but a routing table and an address to resolve
InitRoute ==
    /\ dns = EmptyHeader /\ records_data = << >>
    /\ answers_idx = 0 /\ authority_idx = 0 /\ additional_idx = 0
    /\ status = "none" /\ origin = "built"
    /\ added = NoAdded /\ nadds = 0 /\ pre = EmptyUnit /\ last = NoLast
    /\ cn = CnIdle /\ en = EnIdle /\ ip6 = Ip6Idle /\ wifi = WifiIdle /\ probe = ProbeIdle
    /\ \E ip \in RouteIps, entries \in RouteLists(MaxRoutes) :
           route = [pc |-> "call", ip |-> ip, entries |-> entries,
                    best_match |-> 0, iface_id |-> ""]

Resolve ==
    /\ route.pc = "call"
    /\ LET r == resolve(route.ip, route.entries)
       IN route' = [route EXCEPT !.pc = r.pc, !.best_match = r.best_match,
                                 !.iface_id = r.iface_id]
    /\ UNCHANGED <<dnsvars, cn, en, ip6, wifi, probe>>

NextRoute == Resolve

SpecRoute == InitRoute /\ [][NextRoute]_vars

\* the positions of the entries that match the address
Matching == {i \in 1..Len(route.entries) :
                And32(route.ip, route.entries[i].mask) = route.entries[i].destination}

\* the number of leading one bits of a mask
RECURSIVE LeadingOnes(_, _)
LeadingOnes(byte, bit) ==
    IF bit = 0 \/ byte \div bit = 0 THEN 0
    ELSE 1 + LeadingOnes(byte % bit, bit \div 2)

RECURSIVE MaskLength(_)
MaskLength(mask) ==
    IF mask = << >> THEN 0
    ELSE IF Head(mask) = 255 THEN 8 + MaskLength(Tail(mask))
    ELSE LeadingOnes(Head(mask), 128)

\* C25: for an address other than loopback the entry chosen is a matching
\* one with the longest mask and, among those, with the smallest metric;
\* invalid_interface is raised when no entry matches.
C25_LongestMaskSmallestMetric ==
    (route.pc \in {"returned", "invalid_interface"} /\ route.ip # Loopback4) =>
        IF Matching = {} THEN route.pc = "invalid_interface"
        ELSE /\ route.pc = "returned"
             /\ route.best_match \in Matching
             /\ LET chosen == route.entries[route.best_match]
                IN \A i \in Matching :
                       \/ MaskLength(route.entries[i].mask) < MaskLength(chosen.mask)
                       \/ /\ route.entries[i].mask = chosen.mask
                          /\ chosen.metric <= route.entries[i].metric

(***************************************************************************)
(* The first byte of a name, as the three name routines take it.  Each     *)
(* routine is run on a name that starts with the byte, is followed by the  *)
(* byte 12 and by zeros: as a pointer the two bytes point at the name      *)
(* itself, as a length the byte counts bytes that are all there.           *)
(***************************************************************************)
ProbeData(b) == << b, HeaderSize >> \o Zeros(64)

\* skip_to_dname_end stops after 2 bytes for a pointer only
skip_takes(b) ==
    LET pos == skip_to_dname_end(ProbeData(b), 0)
    IN IF b = 0 THEN "end" ELSE IF pos = 2 THEN "pointer" ELSE "label"

\* compose_name appends to the output for a label only
compose_takes(b) ==
    LET s == ComposeStep(ComposeStart(ProbeData(b), 0), 0)
    IN IF s.pc = "returned" THEN "end"
       ELSE IF s.out # << >> THEN "label" ELSE "pointer"

\* update_dname, told to move every pointer by 1, rewrites a pointer only
update_takes(b) ==
    LET r == update_dname(ProbeData(b), 0, 0, 1, 0)
    IN IF b = 0 THEN "end"
       ELSE IF r.data # ProbeData(b) THEN "pointer" ELSE "label"

InitProbe ==
    /\ dns = EmptyHeader /\ records_data = << >>
    /\ answers_idx = 0 /\ authority_idx = 0 /\ additional_idx = 0
    /\ status = "none" /\ origin = "built"
    /\ added = NoAdded /\ nadds = 0 /\ pre = EmptyUnit /\ last = NoLast
    /\ cn = CnIdle /\ en = EnIdle /\ ip6 = Ip6Idle /\ wifi = WifiIdle
    /\ route = RouteIdle
    /\ \E b \in Byte : probe = [pc |-> "byte", byte |-> b, routine |-> "none",
                                taken |-> "none"]

ProbeDone(routine, taken) ==
    /\ probe.pc = "byte"
    /\ probe' = [probe EXCEPT !.pc = "done", !.routine = routine, !.taken = taken]
    /\ UNCHANGED <<dnsvars, cn, en, ip6, wifi, route>>

ProbeSkip    == ProbeDone("skip_to_dname_end", skip_takes(probe.byte))
ProbeCompose == ProbeDone("compose_name", compose_takes(probe.byte))
ProbeUpdate  == ProbeDone("update_dname", update_takes(probe.byte))

NextProbe == ProbeSkip \/ ProbeCompose \/ ProbeUpdate

SpecProbe == InitProbe /\ [][NextProbe]_vars

\* C26: each routine takes a byte for the first byte of a pointer exactly
\* when its top two bits are both 1, and a byte in 1..63 for a label length.
C26_PointerBytes ==
    probe.pc = "done" =>
        /\ probe.taken = "pointer" <=> probe.byte >= 192
        /\ probe.byte \in 1..63 => probe.taken = "label"

(***************************************************************************)
(* The cursor of update_records.                                           *)
(***************************************************************************)
\* add_query has just walked the answers of the unit as it was, and the
\* first answer's name is a whole name
WalkedAnswers ==
    /\ nadds >= 1 /\ last.op = "add_query"
    /\ pre.dns.answers >= 1
    /\ pre.answers_idx < Len(pre.records_data)
    /\ NameEnd(pre.records_data, pre.answers_idx, Len(pre.records_data)) # -1

\* C27: after update_dname has processed a record's name the cursor is on
\* the first byte of the record's type field, whether the name ends in a
\* zero label or in a compression pointer.
C27_CursorAfterName ==
    WalkedAnswers =>
        update_dname(pre.records_data, pre.answers_idx, last.threshold,
                     Len(last.bytes), 0).ptr
            = NameEnd(pre.records_data, pre.answers_idx, Len(pre.records_data))

(***************************************************************************)
(* The reads of compose_name.                                              *)
(***************************************************************************)
\* C28: started at a position inside records_data, compose_name reads only
\* bytes of records_data: no loop test and no loop body reads at or past
\* the end; MalformedPacket is raised before that.
C28_ComposeReadsInBounds ==
    (cn.pc # "idle" /\ cn.start < Len(cn.data)) => ~cn.oob

(***************************************************************************)
(* Which IPv6 packets the parser rejects.                                  *)
(***************************************************************************)
\* the bytes after the chain cannot be parsed as the protocol it names
InnerMalformed ==
    /\ Chain.fits
    /\ ~(Chain.last \in ExtensionHeaderIds)
    /\ inner_from(Chain.last, Slice(ip6.buffer, Chain.rest, Len(ip6.buffer))).status
           = "malformed"

\* C29: a packet with its fixed header whose extension headers all fit in
\* the buffer parses, whatever follows the last of them; the extension
\* headers make the parser fail only when one of them declares more bytes
\* than remain from its first byte.
C29_ParseAcceptsFittingChain ==
    (Ip6Parsed /\ Len(ip6.buffer) >= Ipv6HeaderSize /\ ip6.pc = "malformed") =>
        (~Chain.fits \/ InnerMalformed)

(***************************************************************************)
(* Extension headers added by add_ext_header, serialized and parsed.       *)
(***************************************************************************)
Ip6BuiltSerialized ==
    /\ ip6.pc = "unit" /\ ip6.origin = "built" /\ ip6.op = "write_serialization"
    /\ ip6.unit.ext_headers # << >>

\* the packet on the wire: the unit's bytes, then those of its inner unit
Ip6Wire == ip6.out \o ip6.unit.inner.data

\* C30: every serialized extension header has a length byte L with
\* 8 * (L + 1) = data_size + 2, and parsing the serialized packet gives the
\* same extension headers and the same start of the inner payload.
C30_AddedHeadersRoundTrip ==
    Ip6BuiltSerialized =>
        /\ \A i \in 1..Len(ip6.unit.ext_headers) :
               \E start \in ExtHeaderStarts(ip6.unit.ext_headers, Ipv6HeaderSize) :
                   /\ start = Ipv6HeaderSize + 1
                                + ExtHeadersBytes(SubSeq(ip6.unit.ext_headers, 1, i - 1))
                   /\ 8 * (ip6.out[start + 1] + 1) = Len(ip6.unit.ext_headers[i].data) + 2
        /\ ip6.unit.inner.size = Len(ip6.unit.inner.data) =>
               LET r == ParseIPv6(Ip6Wire)
               IN /\ r.ok
                  /\ r.unit.ext_headers = ip6.unit.ext_headers
                  /\ r.unit.headers_size = ip6.unit.headers_size

====
